---- MODULE Spec2Model ----
(***************************************************************************)
(* A model of the signal-to-execution pipeline of the luno trading bot     *)
(* (package bot): the SimulatedExecutor and LunoExecutor ledgers, the TWAP *)
(* / VWAP slicing decorators, the position sizers, the Sizing and Logging  *)
(* decorators, the strategy combinators, the SMA, RSI and threshold        *)
(* strategies and their construction, and the server's handlers (package   *)
(* api): /backtest, /thresholds, /autoscan, /scan and the live executor    *)
(* shared by /execute and the auto-scan goroutine.                         *)
(*                                                                         *)
(* Amounts and prices are integers.  Quotes are drawn so that bid + ask is *)
(* even, hence the mid-price (bid + ask) / 2 is exact.  A time.Time is a   *)
(* natural number, 0 being the zero time (Time.IsZero), and a Duration is  *)
(* a difference of two of them.                                            *)
(***************************************************************************)
EXTENDS Integers, Sequences, FiniteSets, TLC

VARIABLES
    target,   \* which executor instance the session drives: "sim" or "luno"
    sim,      \* the SimulatedExecutor struct
    luno,     \* the LunoExecutor struct (position, entryPrice)
    posted,   \* the PostLimitOrder requests the broker has received, with outcome
    call,     \* the most recent call on the executor: inputs and returned error
    pre,      \* the executor state at the moment that call was made
    ncalls,   \* number of calls made so far
    ctor,     \* the arguments NewTWAPExecutor / NewVWAPExecutor was given
    slicer,   \* the TWAPExecutor / VWAPExecutor struct
    spc,      \* where the slicing Execute stands
    sargs,    \* the arguments of the slicing Execute call
    sloop,    \* its locals: loop index i, weights, tradeID
    ctxErr,   \* ctx.Err(): Nil until the context is cancelled
    swaited,  \* time the current inter-slice wait has lasted
    store,    \* the SQLite store: trades and slices tables
    events,   \* what the slicing Execute has done so far, in order
    cancelAt, \* where the slicing Execute stood when the context was cancelled
    sret,     \* the error the slicing Execute returned
    ksizer,   \* a KellySizer struct
    kargs,    \* the arguments of its Size call: equity and cfg
    kout,     \* the value Size returned, once it has
    dchain,   \* the decorators wrapped around a SimulatedExecutor, outermost first
    dsim,     \* that SimulatedExecutor
    dcall,    \* the most recent call on the chain, with every call it caused
    dpre,     \* the SimulatedExecutor at the moment that call was made
    dncalls,  \* number of Execute calls made on the chain so far
    mtf,      \* a MultiTimeframeStrategy: the sizes of its two composites
    mcall,    \* its most recent Next: what the sub-strategies and it returned
    sma,      \* an SMAStrategy struct
    smacfg,   \* the Config its Next calls are given
    smain,    \* the mid-prices of the quotes it has been fed, in order
    smaout,   \* the signals its Next calls returned, in order
    rsi,      \* an RSIStrategy struct
    rsiout,   \* the signals its Next calls returned, in order
    thr,      \* a ThresholdStrategy struct
    thrcalls, \* its Next calls so far: quote, config and signal returned
    cargs,    \* the constructor called and its arguments
    cpanic,   \* whether that construction panicked
    cbuilt,   \* the SMA strategies it built
    csigs,    \* the signals their Next calls returned, in order
    bt,       \* the locals of the /backtest handler and where it stands
    bthist,   \* per candle replayed: the signal and the handler's position and PnL after it
    btresp,   \* the JSON body of its 200 response
    grid,     \* the locals of the /thresholds handler and where it stands
    gevals,   \* per pair of the request, the combinations evaluated, in order
    results,  \* the ThresholdResults appended so far
    autoScanCancel,\* the package variable: 0 for nil, else the goroutine whose context it cancels
    scans,    \* the scan goroutines spawned, in order: position and whether the context is done
    crashed,  \* whether a goroutine has panicked and ended the process
    areqs,    \* the auto-scan requests made so far, with their responses
    scancfg,  \* the stored configuration LoadConfig returns
    scanConsecCount,\* the package map: consecutive entry-threshold hits per pair
    scanned,  \* the pairs whose ticker a scan has reached
    scancalls,\* the /scan requests so far
    scanresp, \* the last /scan request and its response
    liveExec, \* the LunoExecutor the router was set up with
    liveOrders,\* the limit orders posted to the broker by the live executor
    liveCalls,\* per goroutine, the call of Execute in flight
    liveRet,  \* per goroutine, how its last call of Execute returned
    liveHist, \* calls entered, positions opened, Sell calls entered, the pair holding the position
    ledger    \* the clock, the last executed trade and the bookings of the open entry

execVars == <<target, sim, luno, posted, call, pre, ncalls>>

sliceVars ==
    <<ctor, slicer, spc, sargs, sloop, ctxErr, swaited, store, events, cancelAt, sret>>

kellyVars == <<ksizer, kargs, kout>>

chainVars == <<dchain, dsim, dcall, dpre, dncalls>>

comboVars == <<mtf, mcall>>

smaVars == <<sma, smacfg, smain, smaout>>

rsiVars == <<rsi, rsiout>>

thrVars == <<thr, thrcalls>>

ctorVars == <<cargs, cpanic, cbuilt, csigs>>

backtestVars == <<bt, bthist, btresp>>

gridVars == <<grid, gevals, results>>

autoVars == <<autoScanCancel, scans, crashed, areqs>>

scanVars == <<scancfg, scanConsecCount, scanned, scancalls, scanresp>>

liveVars == <<liveExec, liveOrders, liveCalls, liveRet, liveHist>>

ledgerVars == <<ledger>>

vars ==
    <<execVars, sliceVars, kellyVars, chainVars, comboVars, smaVars,
      rsiVars, thrVars, ctorVars, backtestVars, gridVars, autoVars,
      scanVars, liveVars, ledgerVars>>

\* what a session on a bare executor leaves alone
nonExecVars ==
    <<sliceVars, kellyVars, chainVars, comboVars, smaVars, rsiVars,
      thrVars, ctorVars, backtestVars, gridVars, autoVars, scanVars,
      liveVars, ledgerVars>>

\* what a slicing execution leaves alone
nonSliceVars ==
    <<execVars, kellyVars, chainVars, comboVars, smaVars, rsiVars, thrVars,
      ctorVars, backtestVars, gridVars, autoVars, scanVars, liveVars,
      ledgerVars>>

\* what a Size call leaves alone
nonKellyVars ==
    <<execVars, sliceVars, chainVars, comboVars, smaVars, rsiVars, thrVars,
      ctorVars, backtestVars, gridVars, autoVars, scanVars, liveVars,
      ledgerVars>>

\* what a session on a decorated executor leaves alone
nonChainVars ==
    <<execVars, sliceVars, kellyVars, comboVars, smaVars, rsiVars, thrVars,
      ctorVars, backtestVars, gridVars, autoVars, scanVars, liveVars,
      ledgerVars>>

\* what a combinator's Next leaves alone
nonComboVars ==
    <<execVars, sliceVars, kellyVars, chainVars, smaVars, rsiVars, thrVars,
      ctorVars, backtestVars, gridVars, autoVars, scanVars, liveVars,
      ledgerVars>>

\* what an SMAStrategy's Next leaves alone
nonSmaVars ==
    <<execVars, sliceVars, kellyVars, chainVars, comboVars, rsiVars,
      thrVars, ctorVars, backtestVars, gridVars, autoVars, scanVars,
      liveVars, ledgerVars>>

\* what an RSIStrategy's Next leaves alone
nonRsiVars ==
    <<execVars, sliceVars, kellyVars, chainVars, comboVars, smaVars,
      thrVars, ctorVars, backtestVars, gridVars, autoVars, scanVars,
      liveVars, ledgerVars>>

\* what a ThresholdStrategy's Next leaves alone
nonThrVars ==
    <<execVars, sliceVars, kellyVars, chainVars, comboVars, smaVars,
      rsiVars, ctorVars, backtestVars, gridVars, autoVars, scanVars,
      liveVars, ledgerVars>>

\* what constructing a strategy and feeding it leaves alone
nonCtorVars ==
    <<execVars, sliceVars, kellyVars, chainVars, comboVars, smaVars,
      rsiVars, thrVars, backtestVars, gridVars, autoVars, scanVars,
      liveVars, ledgerVars>>

\* what a /backtest request leaves alone
nonBacktestVars ==
    <<execVars, sliceVars, kellyVars, chainVars, comboVars, smaVars,
      rsiVars, thrVars, ctorVars, gridVars, autoVars, scanVars, liveVars,
      ledgerVars>>

\* what a /thresholds request leaves alone
nonGridVars ==
    <<execVars, sliceVars, kellyVars, chainVars, comboVars, smaVars,
      rsiVars, thrVars, ctorVars, backtestVars, autoVars, scanVars,
      liveVars, ledgerVars>>

\* what the auto-scan endpoints and goroutines leave alone
nonAutoVars ==
    <<execVars, sliceVars, kellyVars, chainVars, comboVars, smaVars,
      rsiVars, thrVars, ctorVars, backtestVars, gridVars, scanVars,
      liveVars, ledgerVars>>

\* what a /scan request leaves alone
nonScanVars ==
    <<execVars, sliceVars, kellyVars, chainVars, comboVars, smaVars,
      rsiVars, thrVars, ctorVars, backtestVars, gridVars, autoVars,
      liveVars, ledgerVars>>

\* what a call of the shared live executor leaves alone
nonLiveVars ==
    <<execVars, sliceVars, kellyVars, chainVars, comboVars, smaVars,
      rsiVars, thrVars, ctorVars, backtestVars, gridVars, autoVars,
      scanVars, ledgerVars>>

\* what a paper-trading session with its ledger leaves alone besides the
\* executor and the ledger
nonLedgerVars ==
    <<sliceVars, kellyVars, chainVars, comboVars, smaVars,
      rsiVars, thrVars, ctorVars, backtestVars, gridVars, autoVars,
      scanVars, liveVars>>

----------------------------------------------------------------------------
(* Bounds of the model *)

MaxCalls == 3

MaxTime == 2

MaxStake == 2

MaxSlices == 3

MaxInterval == 2

----------------------------------------------------------------------------
(* Shared value types: interfaces.go *)

SignalNone == "none"

SignalBuy == "buy"

SignalSell == "sell"

Signals == {SignalNone, SignalBuy, SignalSell}

\* (bid, ask) pairs of the quotes fed to the executors: mid-prices 90, 100, 120
BidAsks == {<<90, 90>>, <<90, 110>>, <<120, 120>>}

Times == 0..MaxTime

\* MarketData{Bid, Ask, Timestamp}
Quotes == {[Bid |-> ba[1], Ask |-> ba[2], Timestamp |-> t] : ba \in BidAsks, t \in Times}

\* The position limit of the configs: the largest stake is over it.
PositionLimits == {MaxStake - 1}

\* The fields of Config the executors read.
Configs ==
    [Pair : {"XBTZAR"},
     StakeSize : 0..MaxStake,
     PositionLimit : PositionLimits,
     Cooldown : {0, 2},
     MaxDrawdown : {5, 100}]

\* LunoExecutor.Execute reads neither the timestamp, the cooldown nor the
\* maximal drawdown: its inputs carry one value of each.
LunoQuotes == {q \in Quotes : q.Timestamp = 1}

LunoConfigs == {c \in Configs : c.Cooldown = 0 /\ c.MaxDrawdown = 5}

Nil == "nil"

ErrLimit == "stake size > position limit"

ErrDrawdown == "max drawdown exceeded"

ErrBroker == "broker error"

\* price := (md.Bid + md.Ask) / 2
Mid(md) == (md.Bid + md.Ask) \div 2

\* time.Time.IsZero
IsZero(t) == t = 0

----------------------------------------------------------------------------
(* SimulatedExecutor *)

\* NewSimulatedExecutor: &SimulatedExecutor{}
NewSimulatedExecutor ==
    [Position |-> 0, EntryPrice |-> 0, TotalPnL |-> 0, PeakPnL |-> 0,
     MaxDrawdownExceeded |-> FALSE, LastTradeTime |-> 0]

InCooldownNever(e, md, cfg) == FALSE

\* the cooldown test that opens Execute
InCooldown(e, md, cfg) ==
    ~IsZero(e.LastTradeTime) /\ md.Timestamp - e.LastTradeTime < cfg.Cooldown

SimBuyPyramid(e, price, cfg) ==
    IF cfg.StakeSize > cfg.PositionLimit
    THEN [e |-> e, err |-> ErrLimit]
    ELSE [e |-> [e EXCEPT !.Position = e.Position + cfg.StakeSize,
                          !.EntryPrice = price],
          err |-> Nil]

\* case SignalBuy
SimBuy(e, price, cfg) ==
    IF e.Position # 0
    THEN [e |-> e, err |-> Nil]
    ELSE IF cfg.StakeSize > cfg.PositionLimit
         THEN [e |-> e, err |-> ErrLimit]
         ELSE [e |-> [e EXCEPT !.Position = cfg.StakeSize, !.EntryPrice = price],
               err |-> Nil]

SimPeakFollowsTotal(total, peak) == total

\* if e.TotalPnL > e.PeakPnL { e.PeakPnL = e.TotalPnL }
SimPeak(total, peak) == IF total > peak THEN total ELSE peak

\* case SignalSell
SimSell(e, price, cfg) ==
    IF e.Position = 0
    THEN [e |-> e, err |-> Nil]
    ELSE LET profit == (price - e.EntryPrice) * e.Position
             total == e.TotalPnL + profit
             peak == SimPeak(total, e.PeakPnL)
             drawdown == peak - total
             e2 == [e EXCEPT !.TotalPnL = total, !.PeakPnL = peak]
         IN  IF drawdown > cfg.MaxDrawdown
             THEN [e |-> [e2 EXCEPT !.MaxDrawdownExceeded = TRUE],
                   err |-> ErrDrawdown]
             ELSE [e |-> [e2 EXCEPT !.Position = 0], err |-> Nil]

\* SimulatedExecutor.Execute: the ledger after the call and the error returned
SimExecute(e, sig, md, cfg) ==
    IF InCooldown(e, md, cfg)
    THEN [e |-> e, err |-> Nil]
    ELSE LET e1 == [e EXCEPT !.LastTradeTime = md.Timestamp]
             price == Mid(md)
         IN  CASE sig = SignalBuy -> SimBuy(e1, price, cfg)
               [] sig = SignalSell -> SimSell(e1, price, cfg)
               [] OTHER -> [e |-> e1, err |-> Nil]

SimCancelAllBooksPnL(e) ==
    [e |-> IF e.Position # 0
           THEN [e EXCEPT !.Position = 0, !.TotalPnL = e.TotalPnL - e.Position]
           ELSE e,
     err |-> Nil]

\* SimulatedExecutor.CancelAll
SimCancelAll(e) ==
    [e |-> IF e.Position # 0 THEN [e EXCEPT !.Position = 0] ELSE e, err |-> Nil]

----------------------------------------------------------------------------
(* LunoExecutor *)

\* NewLunoExecutor: &LunoExecutor{client: client}
NewLunoExecutor == [position |-> 0, entryPrice |-> 0]

\* dec.NewFromFloat64(x, 8): a decimal of scale 8.  Every amount of the model
\* has at most 8 fractional digits, so the rounding keeps its value.
DecFromFloat64(x) == [value |-> x, scale |-> 8]

\* luno.PostLimitOrderRequest as built by Execute; the client order id is a
\* fresh uuid, modelled by the request's position in the broker's log.  The
\* two account ids are copied from the config and are left out.
LimitOrderRequest(pair, type, price, volume, id) ==
    [Pair |-> pair, Type |-> type, Price |-> DecFromFloat64(price),
     Volume |-> DecFromFloat64(volume), ClientOrderId |-> id]

LunoBuyPostFirst(e, price, cfg, log, brokerOk) ==
    IF e.position # 0
    THEN [e |-> e, err |-> Nil, log |-> log]
    ELSE LET req == LimitOrderRequest(cfg.Pair, "BID", price, cfg.StakeSize, Len(log) + 1)
             log2 == Append(log, [req |-> req, ok |-> brokerOk])
         IN  IF cfg.StakeSize > cfg.PositionLimit
             THEN [e |-> e, err |-> ErrLimit, log |-> log2]
             ELSE IF ~brokerOk
                  THEN [e |-> e, err |-> ErrBroker, log |-> log2]
                  ELSE [e |-> [position |-> cfg.StakeSize, entryPrice |-> price],
                        err |-> Nil, log |-> log2]

\* case SignalBuy; brokerOk is the outcome of client.PostLimitOrder
LunoBuy(e, price, cfg, log, brokerOk) ==
    IF e.position # 0
    THEN [e |-> e, err |-> Nil, log |-> log]
    ELSE IF cfg.StakeSize > cfg.PositionLimit
         THEN [e |-> e, err |-> ErrLimit, log |-> log]
         ELSE LET req == LimitOrderRequest(cfg.Pair, "BID", price, cfg.StakeSize, Len(log) + 1)
                  log2 == Append(log, [req |-> req, ok |-> brokerOk])
              IN  IF ~brokerOk
                  THEN [e |-> e, err |-> ErrBroker, log |-> log2]
                  ELSE [e |-> [position |-> cfg.StakeSize, entryPrice |-> price],
                        err |-> Nil, log |-> log2]

LunoSellOptimistic(e, price, cfg, log, brokerOk) ==
    IF e.position = 0
    THEN [e |-> e, err |-> Nil, log |-> log]
    ELSE LET req == LimitOrderRequest(cfg.Pair, "ASK", price, e.position, Len(log) + 1)
             log2 == Append(log, [req |-> req, ok |-> brokerOk])
         IN  [e |-> [e EXCEPT !.position = 0],
              err |-> IF brokerOk THEN Nil ELSE ErrBroker, log |-> log2]

\* case SignalSell
LunoSell(e, price, cfg, log, brokerOk) ==
    IF e.position = 0
    THEN [e |-> e, err |-> Nil, log |-> log]
    ELSE LET req == LimitOrderRequest(cfg.Pair, "ASK", price, e.position, Len(log) + 1)
             log2 == Append(log, [req |-> req, ok |-> brokerOk])
         IN  IF ~brokerOk
             THEN [e |-> e, err |-> ErrBroker, log |-> log2]
             ELSE [e |-> [e EXCEPT !.position = 0], err |-> Nil, log |-> log2]

\* LunoExecutor.Execute: the executor after the call, the error returned and
\* the broker's log of requests
LunoExecute(e, sig, md, cfg, log, brokerOk) ==
    LET price == Mid(md)
    IN  CASE sig = SignalBuy -> LunoBuy(e, price, cfg, log, brokerOk)
          [] sig = SignalSell -> LunoSell(e, price, cfg, log, brokerOk)
          [] OTHER -> [e |-> e, err |-> Nil, log |-> log]

\* LunoExecutor.CancelAll: does nothing
LunoCancelAll(e) == [e |-> e, err |-> Nil]

----------------------------------------------------------------------------
(* A session of calls on one executor instance *)

NoQuote == [Bid |-> 0, Ask |-> 0, Timestamp |-> 0]

NoConfig == [Pair |-> "", StakeSize |-> 0, PositionLimit |-> 0, Cooldown |-> 0, MaxDrawdown |-> 0]

NoCall == [op |-> "none", sig |-> SignalNone, md |-> NoQuote, cfg |-> NoConfig, err |-> Nil]

Snapshot == [sim |-> sim, luno |-> luno, nposted |-> Len(posted)]

ExecInit ==
    /\ target \in {"sim", "luno"}
    /\ sim = NewSimulatedExecutor
    /\ luno = NewLunoExecutor
    /\ posted = <<>>
    /\ call = NoCall
    /\ pre = [sim |-> NewSimulatedExecutor, luno |-> NewLunoExecutor, nposted |-> 0]
    /\ ncalls = 0

\* The caller is between two calls: the previous one has returned and its
\* result has been consumed.
Idle == call.op = "none"

SimExecuteCall(sig, md, cfg) ==
    /\ target = "sim"
    /\ Idle
    /\ ncalls < MaxCalls
    /\ LET r == SimExecute(sim, sig, md, cfg)
       IN  /\ sim' = r.e
           /\ call' = [op |-> "Execute", sig |-> sig, md |-> md, cfg |-> cfg, err |-> r.err]
    /\ pre' = Snapshot
    /\ ncalls' = ncalls + 1
    /\ UNCHANGED <<target, luno, posted>>
    /\ UNCHANGED nonExecVars

SimCancelAllCall ==
    /\ target = "sim"
    /\ Idle
    /\ ncalls < MaxCalls
    /\ LET r == SimCancelAll(sim)
       IN  /\ sim' = r.e
           /\ call' = [NoCall EXCEPT !.op = "CancelAll", !.err = r.err]
    /\ pre' = Snapshot
    /\ ncalls' = ncalls + 1
    /\ UNCHANGED <<target, luno, posted>>
    /\ UNCHANGED nonExecVars

LunoExecuteCall(sig, md, cfg, brokerOk) ==
    /\ target = "luno"
    /\ Idle
    /\ ncalls < MaxCalls
    /\ LET r == LunoExecute(luno, sig, md, cfg, posted, brokerOk)
       IN  /\ luno' = r.e
           /\ posted' = r.log
           /\ call' = [op |-> "Execute", sig |-> sig, md |-> md, cfg |-> cfg, err |-> r.err]
    /\ pre' = Snapshot
    /\ ncalls' = ncalls + 1
    /\ UNCHANGED <<target, sim>>
    /\ UNCHANGED nonExecVars

LunoCancelAllCall ==
    /\ target = "luno"
    /\ Idle
    /\ ncalls < MaxCalls
    /\ LET r == LunoCancelAll(luno)
       IN  /\ luno' = r.e
           /\ call' = [NoCall EXCEPT !.op = "CancelAll", !.err = r.err]
    /\ pre' = Snapshot
    /\ ncalls' = ncalls + 1
    /\ UNCHANGED <<target, sim, posted>>
    /\ UNCHANGED nonExecVars

\* The caller takes the returned error; the executor keeps its state.
CallReturn ==
    /\ ~Idle
    /\ call' = NoCall
    /\ pre' = Snapshot
    /\ UNCHANGED <<target, sim, luno, posted, ncalls>>
    /\ UNCHANGED nonExecVars

ExecNext ==
    \/ \E sig \in Signals, md \in Quotes, cfg \in Configs : SimExecuteCall(sig, md, cfg)
    \/ SimCancelAllCall
    \/ \E sig \in Signals, md \in LunoQuotes, cfg \in LunoConfigs, brokerOk \in BOOLEAN :
           LunoExecuteCall(sig, md, cfg, brokerOk)
    \/ LunoCancelAllCall
    \/ CallReturn


----------------------------------------------------------------------------
(* Exact arithmetic for slice sizes and weights: a float64 quantity is the  *)
(* rational it stands for, kept in lowest terms with a positive denominator *)

RECURSIVE Gcd(_, _)
Gcd(a, b) == IF b = 0 THEN a ELSE Gcd(b, a % b)

Abs(x) == IF x < 0 THEN -x ELSE x

Rat(n, d) ==
    LET g == Gcd(Abs(n), d)
    IN  [num |-> n \div g, den |-> d \div g]

RatInt(n) == Rat(n, 1)

RatAdd(x, y) == Rat(x.num * y.den + y.num * x.den, x.den * y.den)

RatSub(x, y) == Rat(x.num * y.den - y.num * x.den, x.den * y.den)

RatMul(x, y) == Rat(x.num * y.num, x.den * y.den)

RECURSIVE SumSeq(_)
SumSeq(q) == IF q = <<>> THEN 0 ELSE Head(q) + SumSeq(Tail(q))

----------------------------------------------------------------------------
(* TWAPExecutor and VWAPExecutor: construction and inputs *)

\* if slices <= 1 { slices = 1 }
ClampSlices(slices) == IF slices <= 1 THEN 1 ELSE slices

\* NewTWAPExecutor(inner, slices, interval)
NewTWAPExecutor(slices, interval) ==
    [kind |-> "twap", Slices |-> ClampSlices(slices), Interval |-> interval,
     Store |-> FALSE]

\* NewVWAPExecutor(inner, client, slices, interval, store); Store tells
\* whether the store is non-nil
NewVWAPExecutor(slices, interval, hasStore) ==
    [kind |-> "vwap", Slices |-> ClampSlices(slices), Interval |-> interval,
     Store |-> hasStore]

SliceArgs == 0..MaxSlices

Intervals == {0, MaxInterval}

\* cfg.VWAPSource: the three named sources and any other string
VWAPSources == {"historical", "orderbook", "hybrid", ""}

\* the Config of a slicing Execute: the risk fields pass through to the
\* inner executor unread and carry one value each
SliceConfigs ==
    [Pair : {"XBTZAR"},
     StakeSize : 1..MaxStake,
     PositionLimit : {MaxStake},
     Cooldown : {0},
     MaxDrawdown : {5},
     VWAPSource : VWAPSources,
     VWAPHybridWeight : {Rat(0, 1), Rat(1, 2)}]

SliceQuotes == {q \in Quotes : q.Timestamp = 1 /\ q.Bid # q.Ask}

\* Client.GetCandles: an error, or the candles' volumes in time order
CandleResponses ==
    {[err |-> TRUE, vols |-> <<>>]} \cup
    {[err |-> FALSE, vols |-> v] : v \in {<<>>, <<1, 2>>, <<0, 0>>, <<2, 1, 1, 2>>}}

\* Client.GetOrderBook: an error, or the volumes of the ask and bid levels
BookResponses ==
    {[err |-> TRUE, Asks |-> <<>>, Bids |-> <<>>],
     [err |-> FALSE, Asks |-> <<>>, Bids |-> <<1>>],
     [err |-> FALSE, Asks |-> <<1, 2>>, Bids |-> <<2, 1, 1>>]}

NoCandles == [err |-> TRUE, vols |-> <<>>]

NoBook == [err |-> TRUE, Asks |-> <<>>, Bids |-> <<>>]

\* the errors an inner executor returns
InnerErrors == {ErrLimit, ErrBroker}

ErrStore == "sqlite error"

\* context.Canceled and context.DeadlineExceeded
CtxErrors == {"context canceled", "context deadline exceeded"}

WrapErrOpaque(prefix, err) == <<prefix>>

\* fmt.Errorf(prefix + ": %w", err)
WrapErr(prefix, err) == <<prefix, err>>

----------------------------------------------------------------------------
(* VWAP slice weights *)

\* weights[i] = 1.0 / float64(v.Slices) for every i
EqualWeights(n) == [i \in 1..n |-> Rat(1, n)]

\* the bucket loop shared by both weight functions: slice i (from 0) takes
\* the volumes floor(i*bucket) .. floor((i+1)*bucket) - 1, the last slice
\* up to the end; bucket = len(vols) / slices
BucketWeights(vols, n) ==
    LET len == Len(vols)
        totalVol == SumSeq(vols)
        start(i) == (i * len) \div n
        end(i) == IF i = n - 1 THEN len ELSE ((i + 1) * len) \div n
        sumVol(i) == SumSeq(SubSeq(vols, start(i) + 1, end(i)))
    IN  [k \in 1..n |->
            IF totalVol > 0 THEN Rat(sumVol(k - 1), totalVol) ELSE Rat(1, n)]

ComputeHistoricalWeightsFrontLoaded(resp, n) ==
    IF resp.err THEN [i \in 1..n |-> IF i = 1 THEN Rat(1, 1) ELSE Rat(0, 1)]
    ELSE IF Len(resp.vols) = 0 THEN EqualWeights(n)
    ELSE BucketWeights(resp.vols, n)

\* VWAPExecutor.computeHistoricalWeights
ComputeHistoricalWeights(resp, n) ==
    IF resp.err THEN EqualWeights(n)
    ELSE IF Len(resp.vols) = 0 THEN EqualWeights(n)
    ELSE BucketWeights(resp.vols, n)

\* VWAPExecutor.computeOrderbookWeights
ComputeOrderbookWeights(resp, sig, n) ==
    IF resp.err THEN EqualWeights(n)
    ELSE LET items == IF sig = SignalSell THEN resp.Bids ELSE resp.Asks
         IN  IF Len(items) = 0 THEN EqualWeights(n) ELSE BucketWeights(items, n)

VwapWeightsUnblended(cfg, sig, candles, book, n) ==
    CASE cfg.VWAPSource = "historical" -> ComputeHistoricalWeights(candles, n)
      [] cfg.VWAPSource = "orderbook" -> ComputeOrderbookWeights(book, sig, n)
      [] cfg.VWAPSource = "hybrid" ->
            LET hist == ComputeHistoricalWeights(candles, n)
                bk == ComputeOrderbookWeights(book, sig, n)
                w == cfg.VWAPHybridWeight
            IN  [i \in 1..n |-> RatAdd(RatMul(w, hist[i]), bk[i])]
      [] OTHER -> EqualWeights(n)

\* the switch on cfg.VWAPSource that opens VWAPExecutor.Execute
VwapWeights(cfg, sig, candles, book, n) ==
    CASE cfg.VWAPSource = "historical" -> ComputeHistoricalWeights(candles, n)
      [] cfg.VWAPSource = "orderbook" -> ComputeOrderbookWeights(book, sig, n)
      [] cfg.VWAPSource = "hybrid" ->
            LET hist == ComputeHistoricalWeights(candles, n)
                bk == ComputeOrderbookWeights(book, sig, n)
                w == cfg.VWAPHybridWeight
            IN  [i \in 1..n |->
                    RatAdd(RatMul(w, hist[i]), RatMul(RatSub(RatInt(1), w), bk[i]))]
      [] OTHER -> EqualWeights(n)

----------------------------------------------------------------------------
(* One Execute call on a TWAPExecutor or a VWAPExecutor.  The inner        *)
(* executor, the broker client and the store are collaborators: each call  *)
(* to them returns one of its possible results.  spc is "idle" before the  *)
(* call, "call" when the loop is about to run slice i, "wait" while the    *)
(* goroutine is parked in the select between two slices, "ctxcase" once    *)
(* the select has taken <-ctx.Done(), and "done" after the return.         *)

NoSliceConfig ==
    [Pair |-> "", StakeSize |-> 0, PositionLimit |-> 0, Cooldown |-> 0, MaxDrawdown |-> 0,
     VWAPSource |-> "", VWAPHybridWeight |-> Rat(0, 1)]

NoSliceArgs == [sig |-> SignalNone, md |-> NoQuote, cfg |-> NoSliceConfig]

NoLoop == [i |-> 0, sliceSize |-> Rat(0, 1), weights |-> <<>>, tradeID |-> 0]

NotCancelled == [pc |-> "never", i |-> 0, waited |-> 0, ninner |-> 0]

InnerEvents == SelectSeq(events, LAMBDA ev : ev.kind = "inner")

InnerEvent(sig, md, cfg, err) ==
    [kind |-> "inner", sig |-> sig, md |-> md, cfg |-> cfg, err |-> err]

WaitEvent(ticks) == [kind |-> "wait", ticks |-> ticks]

SaveEvent(what, index, ok) == [kind |-> what, index |-> index, ok |-> ok]

\* a call to Client.GetCandles or Client.GetOrderBook and its response
ClientEvent(what, resp) == [kind |-> what, resp |-> resp]

\* the Client calls the switch on cfg.VWAPSource makes, in order
ClientEvents(cfg, candles, book) ==
    (IF cfg.VWAPSource \in {"historical", "hybrid"}
     THEN <<ClientEvent("getCandles", candles)>> ELSE <<>>) \o
    (IF cfg.VWAPSource \in {"orderbook", "hybrid"}
     THEN <<ClientEvent("getOrderBook", book)>> ELSE <<>>)

SliceInit ==
    /\ ctor \in {c \in [kind : {"twap", "vwap"}, slices : SliceArgs,
                        interval : Intervals, store : BOOLEAN] :
                    c.kind = "twap" => ~c.store}
    /\ slicer = IF ctor.kind = "twap"
                THEN NewTWAPExecutor(ctor.slices, ctor.interval)
                ELSE NewVWAPExecutor(ctor.slices, ctor.interval, ctor.store)
    /\ spc = "idle"
    /\ sargs = NoSliceArgs
    /\ sloop = NoLoop
    /\ ctxErr = Nil
    /\ swaited = 0
    /\ store = [trades |-> <<>>, slices |-> <<>>]
    /\ events = <<>>
    /\ cancelAt = NotCancelled
    /\ sret = "pending"

\* the slicing variables of a session that runs no slicing executor
SliceUnused ==
    /\ ctor = [kind |-> "twap", slices |-> 1, interval |-> 0, store |-> FALSE]
    /\ slicer = NewTWAPExecutor(1, 0)
    /\ spc = "idle"
    /\ sargs = NoSliceArgs
    /\ sloop = NoLoop
    /\ ctxErr = Nil
    /\ swaited = 0
    /\ store = [trades |-> <<>>, slices |-> <<>>]
    /\ events = <<>>
    /\ cancelAt = NotCancelled
    /\ sret = "pending"

\* the executor variables of a session that drives no bare executor
ExecUnused ==
    /\ target = "none"
    /\ sim = NewSimulatedExecutor
    /\ luno = NewLunoExecutor
    /\ posted = <<>>
    /\ call = NoCall
    /\ pre = [sim |-> NewSimulatedExecutor, luno |-> NewLunoExecutor, nposted |-> 0]
    /\ ncalls = 0

TwapConfigs == {c \in SliceConfigs : c.VWAPSource = "" /\ c.VWAPHybridWeight = Rat(0, 1)}

\* the responses the weight functions consult for a source
CandlesFor(cfg) ==
    IF cfg.VWAPSource \in {"historical", "hybrid"} THEN CandleResponses ELSE {NoCandles}

BooksFor(cfg) ==
    IF cfg.VWAPSource \in {"orderbook", "hybrid"} THEN BookResponses ELSE {NoBook}

VwapConfigs == {c \in SliceConfigs : c.VWAPSource # "hybrid" => c.VWAPHybridWeight = Rat(0, 1)}

SaveResults == IF slicer.Store THEN BOOLEAN ELSE {TRUE}

TwapSliceSizeWhole(cfg, n) == RatInt(cfg.StakeSize)

\* sliceSize := cfg.StakeSize / float64(t.Slices)
TwapSliceSize(cfg, n) == Rat(cfg.StakeSize, n)

InnerFailedNever(err) == FALSE

\* if err := Inner.Execute(...); err != nil
InnerFailed(err) == err # Nil

\* The select between two slices, as the goroutine reaches it: the cases
\* that can proceed at once are <-ctx.Done() when the context is already
\* cancelled and <-time.After(interval) when the interval is zero.  With
\* none ready the goroutine parks; with both ready Go picks either (pick).
SelectPoll(ctx, interval, pick) ==
    LET ready == (IF ctx # Nil THEN {"ctx"} ELSE {}) \cup
                 (IF interval <= 0 THEN {"timer"} ELSE {})
    IN  IF ready = {} THEN "park"
        ELSE IF pick \in ready THEN pick
        ELSE CHOOSE c \in ready : TRUE

WakeOnCancelNever(pc) == pc

\* case <-ctx.Done(): a goroutine parked in the select is woken by the
\* cancellation of the context and takes that case
WakeOnCancel(pc) == IF pc = "wait" THEN "ctxcase" ELSE pc

\* What follows a slice that ran without error: the wait "if i < Slices-1",
\* then i++ and the loop test.  Gives the next values of spc, sloop, sret,
\* swaited and events; evs is the log including this slice.
AfterSlice(evs, pick) ==
    LET next == [sloop EXCEPT !.i = sloop.i + 1]
    IN  IF sloop.i < slicer.Slices - 1
        THEN LET sel == SelectPoll(ctxErr, slicer.Interval, pick)
             IN  CASE sel = "park" ->
                        [spc |-> "wait", sloop |-> sloop, sret |-> sret,
                         swaited |-> 0, events |-> evs]
                   [] sel = "ctx" ->
                        [spc |-> "done", sloop |-> sloop, sret |-> ctxErr,
                         swaited |-> 0, events |-> evs]
                   [] sel = "timer" ->
                        [spc |-> "call", sloop |-> next, sret |-> sret,
                         swaited |-> 0, events |-> Append(evs, WaitEvent(0))]
        ELSE [spc |-> "done", sloop |-> next, sret |-> Nil,
              swaited |-> swaited, events |-> evs]

\* return err
Returned(err, evs) ==
    [spc |-> "done", sloop |-> sloop, sret |-> err, swaited |-> swaited,
     events |-> evs]

Apply(r) ==
    /\ spc' = r.spc
    /\ sloop' = r.sloop
    /\ sret' = r.sret
    /\ swaited' = r.swaited
    /\ events' = r.events

\* TWAPExecutor.Execute up to the loop
TwapExecuteStart(sig, md, cfg) ==
    /\ slicer.kind = "twap"
    /\ spc = "idle"
    /\ sargs' = [sig |-> sig, md |-> md, cfg |-> cfg]
    /\ IF sig = SignalNone
       THEN /\ spc' = "done"
            /\ sret' = Nil
            /\ sloop' = sloop
       ELSE /\ spc' = "call"
            /\ sret' = sret
            /\ sloop' = [sloop EXCEPT !.sliceSize = TwapSliceSize(cfg, slicer.Slices)]
    /\ UNCHANGED <<ctor, slicer, ctxErr, swaited, store, events, cancelAt>>
    /\ UNCHANGED nonSliceVars

\* one iteration of the TWAP loop: the inner call (returning res) and the
\* select that follows it
TwapSlice(res, pick) ==
    /\ slicer.kind = "twap"
    /\ spc = "call"
    /\ LET sliceCfg == [sargs.cfg EXCEPT !.StakeSize = sloop.sliceSize]
           evs == Append(events, InnerEvent(sargs.sig, sargs.md, sliceCfg, res))
       IN  Apply(IF InnerFailed(res) THEN Returned(res, evs) ELSE AfterSlice(evs, pick))
    /\ UNCHANGED <<ctor, slicer, sargs, ctxErr, store, cancelAt>>
    /\ UNCHANGED nonSliceVars

\* VWAPExecutor.Execute up to the loop: the weights, then SaveTrade
VwapExecuteStart(sig, md, cfg, candles, book, saveOk) ==
    /\ slicer.kind = "vwap"
    /\ spc = "idle"
    /\ candles \in CandlesFor(cfg)
    /\ book \in BooksFor(cfg)
    /\ saveOk \in SaveResults
    /\ sargs' = [sig |-> sig, md |-> md, cfg |-> cfg]
    /\ IF sig = SignalNone
       THEN /\ spc' = "done"
            /\ sret' = Nil
            /\ UNCHANGED <<sloop, store, events>>
       ELSE LET weights == VwapWeights(cfg, sig, candles, book, slicer.Slices)
                side == IF sig = SignalBuy THEN "buy" ELSE "sell"
                trade == [timestamp |-> md.Timestamp, pair |-> cfg.Pair, side |-> side,
                          price |-> Mid(md), volume |-> cfg.StakeSize]
                evs == events \o ClientEvents(cfg, candles, book)
            IN  IF ~slicer.Store
                THEN /\ spc' = "call"
                     /\ sret' = sret
                     /\ sloop' = [sloop EXCEPT !.weights = weights]
                     /\ events' = evs
                     /\ store' = store
                ELSE IF saveOk
                THEN /\ spc' = "call"
                     /\ sret' = sret
                     /\ store' = [store EXCEPT !.trades = Append(@, trade)]
                     /\ sloop' = [sloop EXCEPT !.weights = weights,
                                               !.tradeID = Len(store.trades) + 1]
                     /\ events' = Append(evs, SaveEvent("saveTrade", 0, TRUE))
                ELSE /\ spc' = "done"
                     /\ sret' = WrapErr("save trade", ErrStore)
                     /\ sloop' = [sloop EXCEPT !.weights = weights]
                     /\ events' = Append(evs, SaveEvent("saveTrade", 0, FALSE))
                     /\ store' = store
    /\ UNCHANGED <<ctor, slicer, ctxErr, swaited, cancelAt>>
    /\ UNCHANGED nonSliceVars

VwapSliceSaveAlways(res, saveOk, pick) ==
    /\ slicer.kind = "vwap"
    /\ spc = "call"
    /\ saveOk \in SaveResults
    /\ LET weight == sloop.weights[sloop.i + 1]
           size == RatMul(RatInt(sargs.cfg.StakeSize), weight)
           sliceCfg == [sargs.cfg EXCEPT !.StakeSize = size]
           evs == Append(events, InnerEvent(sargs.sig, sargs.md, sliceCfg, res))
           row == [tradeID |-> sloop.tradeID, index |-> sloop.i, size |-> size,
                   weight |-> weight]
       IN  IF ~slicer.Store
           THEN /\ Apply(IF InnerFailed(res) THEN Returned(res, evs)
                         ELSE AfterSlice(evs, pick))
                /\ store' = store
           ELSE IF saveOk
           THEN /\ Apply(IF InnerFailed(res)
                         THEN Returned(res, Append(evs, SaveEvent("saveSlice", sloop.i, TRUE)))
                         ELSE AfterSlice(Append(evs, SaveEvent("saveSlice", sloop.i, TRUE)),
                                         pick))
                /\ store' = [store EXCEPT !.slices = Append(@, row)]
           ELSE /\ Apply(Returned(WrapErr("save slice", ErrStore),
                                  Append(evs, SaveEvent("saveSlice", sloop.i, FALSE))))
                /\ store' = store
    /\ UNCHANGED <<ctor, slicer, sargs, ctxErr, cancelAt>>
    /\ UNCHANGED nonSliceVars

\* one iteration of the VWAP loop: the inner call (returning res),
\* SaveSlice and the select that follows
VwapSlice(res, saveOk, pick) ==
    /\ slicer.kind = "vwap"
    /\ spc = "call"
    /\ saveOk \in SaveResults
    /\ LET weight == sloop.weights[sloop.i + 1]
           size == RatMul(RatInt(sargs.cfg.StakeSize), weight)
           sliceCfg == [sargs.cfg EXCEPT !.StakeSize = size]
           evs == Append(events, InnerEvent(sargs.sig, sargs.md, sliceCfg, res))
           row == [tradeID |-> sloop.tradeID, index |-> sloop.i, size |-> size,
                   weight |-> weight]
       IN  IF InnerFailed(res)
           THEN Apply(Returned(res, evs)) /\ store' = store
           ELSE IF ~slicer.Store
           THEN Apply(AfterSlice(evs, pick)) /\ store' = store
           ELSE IF saveOk
           THEN /\ Apply(AfterSlice(Append(evs, SaveEvent("saveSlice", sloop.i, TRUE)),
                                    pick))
                /\ store' = [store EXCEPT !.slices = Append(@, row)]
           ELSE /\ Apply(Returned(WrapErr("save slice", ErrStore),
                                  Append(evs, SaveEvent("saveSlice", sloop.i, FALSE))))
                /\ store' = store
    /\ UNCHANGED <<ctor, slicer, sargs, ctxErr, cancelAt>>
    /\ UNCHANGED nonSliceVars

\* Time passes while the goroutine is parked; when the interval has passed
\* the timer fires, the select takes <-time.After and the loop goes on.
SliceTick ==
    /\ spc = "wait"
    /\ IF swaited + 1 >= slicer.Interval
       THEN /\ spc' = "call"
            /\ sloop' = [sloop EXCEPT !.i = sloop.i + 1]
            /\ swaited' = 0
            /\ events' = Append(events, WaitEvent(swaited + 1))
       ELSE /\ swaited' = swaited + 1
            /\ UNCHANGED <<spc, sloop, events>>
    /\ UNCHANGED <<ctor, slicer, sargs, ctxErr, store, cancelAt, sret>>
    /\ UNCHANGED nonSliceVars

\* The caller's context is cancelled (or its deadline passes).
CtxCancel(err) ==
    /\ ctxErr = Nil
    /\ spc # "done"
    /\ ctxErr' = err
    /\ cancelAt' = [pc |-> spc, i |-> sloop.i, waited |-> swaited,
                    ninner |-> Len(InnerEvents)]
    /\ spc' = WakeOnCancel(spc)
    /\ UNCHANGED <<ctor, slicer, sargs, sloop, swaited, store, events, sret>>
    /\ UNCHANGED nonSliceVars

\* return ctx.Err()
SliceReturnCtx ==
    /\ spc = "ctxcase"
    /\ spc' = "done"
    /\ sret' = ctxErr
    /\ UNCHANGED <<ctor, slicer, sargs, sloop, ctxErr, swaited, store, events, cancelAt>>
    /\ UNCHANGED nonSliceVars

SliceNext ==
    \/ \E sig \in Signals, md \in SliceQuotes, cfg \in TwapConfigs :
           TwapExecuteStart(sig, md, cfg)
    \/ \E res \in {Nil} \cup InnerErrors, pick \in {"ctx", "timer"} : TwapSlice(res, pick)
    \/ \E sig \in Signals, md \in SliceQuotes, cfg \in VwapConfigs,
          candles \in CandleResponses \cup {NoCandles},
          book \in BookResponses \cup {NoBook}, saveOk \in BOOLEAN :
           VwapExecuteStart(sig, md, cfg, candles, book, saveOk)
    \/ \E res \in {Nil} \cup InnerErrors, saveOk \in BOOLEAN, pick \in {"ctx", "timer"} :
           VwapSlice(res, saveOk, pick)
    \/ SliceTick
    \/ \E err \in CtxErrors : CtxCancel(err)
    \/ SliceReturnCtx

----------------------------------------------------------------------------
(* float64 values that may be infinite or NaN: a rational [num, den] in     *)
(* lowest terms, or +Inf = 1/0, -Inf = -1/0, NaN = 0/0.  A zero is the      *)
(* positive zero; rounding and overflow of finite results are left out.     *)

PosInf == [num |-> 1, den |-> 0]

NegInf == [num |-> -1, den |-> 0]

NaN == [num |-> 0, den |-> 0]

Sign(x) == IF x.num > 0 THEN 1 ELSE IF x.num < 0 THEN -1 ELSE 0

Inf(sign) == [num |-> sign, den |-> 0]

\* x < y on float64
FLess(x, y) ==
    IF x = NaN \/ y = NaN THEN FALSE
    ELSE IF x.den = 0 /\ y.den = 0 THEN x.num < y.num
    ELSE IF x.den = 0 THEN x.num < 0
    ELSE IF y.den = 0 THEN y.num > 0
    ELSE x.num * y.den < y.num * x.den

\* x - y on float64
FSub(x, y) ==
    IF x = NaN \/ y = NaN THEN NaN
    ELSE IF x.den = 0 /\ y.den = 0 THEN (IF x = y THEN NaN ELSE x)
    ELSE IF x.den = 0 THEN x
    ELSE IF y.den = 0 THEN Inf(-Sign(y))
    ELSE RatSub(x, y)

\* x * y on float64
FMul(x, y) ==
    IF x = NaN \/ y = NaN THEN NaN
    ELSE IF x.den = 0 \/ y.den = 0
         THEN (IF Sign(x) = 0 \/ Sign(y) = 0 THEN NaN ELSE Inf(Sign(x) * Sign(y)))
    ELSE RatMul(x, y)

\* x / y on float64
FDiv(x, y) ==
    IF x = NaN \/ y = NaN THEN NaN
    ELSE IF x.den = 0 /\ y.den = 0 THEN NaN
    ELSE IF x.den = 0 THEN Inf(IF Sign(y) < 0 THEN -Sign(x) ELSE Sign(x))
    ELSE IF y.den = 0 THEN RatInt(0)
    ELSE IF y.num = 0 THEN (IF x.num = 0 THEN NaN ELSE Inf(Sign(x)))
    ELSE Rat(x.num * y.den * Sign(y), x.den * Abs(y.num))

\* math.Min: Min(x, -Inf) = -Inf, else Min(x, NaN) = NaN
MathMin(x, y) ==
    IF x = NegInf \/ y = NegInf THEN NegInf
    ELSE IF x = NaN \/ y = NaN THEN NaN
    ELSE IF FLess(x, y) THEN x ELSE y

\* math.Max: Max(x, +Inf) = +Inf, else Max(x, NaN) = NaN
MathMax(x, y) ==
    IF x = PosInf \/ y = PosInf THEN PosInf
    ELSE IF x = NaN \/ y = NaN THEN NaN
    ELSE IF FLess(y, x) THEN x ELSE y

----------------------------------------------------------------------------
(* Position sizers.  Size reads cfg.StakeSize only; here it is a float64.  *)

\* &KellySizer{WinProb: p, WinLoss: r}
NewKellySizer(p, r) == [kind |-> "kelly", WinProb |-> p, WinLoss |-> r]

\* &FixedSizer{}
NewFixedSizer == [kind |-> "fixed", WinProb |-> RatInt(0), WinLoss |-> RatInt(0)]

\* KellySizer.Size
KellySizerSize(k, equity, cfg) ==
    LET f == FSub(k.WinProb, FDiv(FSub(RatInt(1), k.WinProb), k.WinLoss))
    IN  MathMax(RatInt(0), MathMin(FMul(f, equity), cfg.StakeSize))

\* FixedSizer.Size
FixedSizerSize(equity, cfg) == cfg.StakeSize

\* PositionSizer.Size, dispatched on the sizer's type
SizerSize(sizer, equity, cfg) ==
    IF sizer.kind = "kelly" THEN KellySizerSize(sizer, equity, cfg)
    ELSE FixedSizerSize(equity, cfg)

\* the KellySizer fields and Size arguments tried: win probabilities 0, 0.6
\* and 1, ratios 0, 1 and 2, equities -1000, 0 and 1000, stakes 0, 1 and 100
KellyWinProbs == {Rat(0, 1), Rat(3, 5), Rat(1, 1)}

KellyWinLossRatios == {Rat(0, 1), Rat(1, 1), Rat(2, 1)}

KellyEquities == {RatInt(0 - 1000), RatInt(0), RatInt(1000)}

KellyStakes == {RatInt(0), RatInt(1), RatInt(100)}

NoSize == [done |-> FALSE, size |-> RatInt(0)]

KellyInit ==
    /\ ksizer \in {NewKellySizer(p, r) : p \in KellyWinProbs, r \in KellyWinLossRatios}
    /\ kargs \in [equity : KellyEquities, cfg : [StakeSize : KellyStakes]]
    /\ kout = NoSize

\* the sizer variables of a session that sizes nothing
KellyUnused ==
    /\ ksizer = NewKellySizer(RatInt(0), RatInt(1))
    /\ kargs = [equity |-> RatInt(0), cfg |-> [StakeSize |-> RatInt(0)]]
    /\ kout = NoSize

\* one call k.Size(equity, cfg)
KellySizeCall ==
    /\ ~kout.done
    /\ kout' = [done |-> TRUE, size |-> KellySizerSize(ksizer, kargs.equity, kargs.cfg)]
    /\ UNCHANGED <<ksizer, kargs>>
    /\ UNCHANGED nonKellyVars

KellyNext == KellySizeCall

----------------------------------------------------------------------------
(* A SimulatedExecutor behind decorators, as main wires them: Logging over *)
(* a slicing executor over Sizing.  Every call on the chain runs to its    *)
(* return: the slicing executors have a zero interval and a context that   *)
(* is never cancelled, the VWAP executor has no store and reads no source. *)
(* The ledger counts whole units: stakes are multiples of ChainLot, which  *)
(* every slice count divides.                                              *)

MaxChainCalls == 2

MaxChainSlices == 2

\* CancelAll calls in a row
MaxCancels == 2

RECURSIVE Factorial(_)
Factorial(n) == IF n <= 1 THEN 1 ELSE n * Factorial(n - 1)

ChainLot == Factorial(MaxChainSlices)

\* a float64 amount that is a whole number of units
Whole(x) == x.num \div x.den

\* a decorator of the chain
Layer(kind, slices, sizer) == [kind |-> kind, Slices |-> slices, Sizer |-> sizer]

\* NewLoggingExecutor(inner, activityLogger, errorLogger)
NewLoggingExecutor == Layer("logging", 0, NewFixedSizer)

\* NewSizingExecutor(inner, sizer)
NewSizingExecutor(sizer) == Layer("sizing", 0, sizer)

\* the sizers of the chain: Fixed, and Kelly with f = 3/4 - (1/4)/1 = 1/2
ChainSizers == {NewFixedSizer, NewKellySizer(Rat(3, 4), Rat(1, 1))}

\* the decorator stacks, outermost first
Chains ==
    {logging \o slicing \o sizing :
        logging \in {<<>>, <<NewLoggingExecutor>>},
        slicing \in {<<>>,
                     <<Layer("twap", NewTWAPExecutor(MaxChainSlices, 0).Slices, NewFixedSizer)>>,
                     <<Layer("vwap", NewVWAPExecutor(MaxChainSlices, 0, FALSE).Slices,
                             NewFixedSizer)>>},
        sizing \in {<<>>} \cup {<<NewSizingExecutor(z)>> : z \in ChainSizers}}

ChainQuotes == {q \in Quotes : q.Timestamp \in {1, 2}}

ChainConfigs ==
    [Pair : {"XBTZAR"},
     StakeSize : {0, ChainLot, 2 * ChainLot},
     PositionLimit : {ChainLot},
     Cooldown : {0, 2},
     MaxDrawdown : {5},
     InitialEquity : {2 * ChainLot},
     VWAPSource : {""},
     VWAPHybridWeight : {Rat(0, 1)}]

NoChainConfig ==
    [Pair |-> "", StakeSize |-> 0, PositionLimit |-> 0, Cooldown |-> 0, MaxDrawdown |-> 0,
     InitialEquity |-> 0, VWAPSource |-> "", VWAPHybridWeight |-> Rat(0, 1)]

\* one invocation of Execute or CancelAll on the executor at depth d of the
\* chain (the SimulatedExecutor is at depth Len(dchain) + 1): the arguments
\* it received and the error it returned
Entry(d, op, sig, md, cfg, err) ==
    [depth |-> d, op |-> op, sig |-> sig, md |-> md, cfg |-> cfg, err |-> err]

\* an executor's result: the ledger, the returned error and the invocations
\* made, in the order they began
Result(e, err, log) == [e |-> e, err |-> err, log |-> log]

RECURSIVE ChainExecute(_, _, _, _, _)
RECURSIVE SliceLoop(_, _, _, _, _, _)
RECURSIVE ChainCancelAll(_, _)

LoggingExecuteSwallow(d, e, sig, md, cfg) ==
    LET r == ChainExecute(d + 1, e, sig, md, cfg)
    IN  Result(r.e, Nil, <<Entry(d, "Execute", sig, md, cfg, Nil)>> \o r.log)

\* LoggingExecutor.Execute
LoggingExecute(d, e, sig, md, cfg) ==
    LET r == ChainExecute(d + 1, e, sig, md, cfg)
    IN  Result(r.e, r.err, <<Entry(d, "Execute", sig, md, cfg, r.err)>> \o r.log)

SizingConfigUnsized(sizer, cfg) == cfg

\* size := s.Sizer.Size(cfg.InitialEquity, cfg); cfg.StakeSize = size
SizingConfig(sizer, cfg) ==
    [cfg EXCEPT !.StakeSize =
        Whole(SizerSize(sizer, RatInt(cfg.InitialEquity),
                        [StakeSize |-> RatInt(cfg.StakeSize)]))]

\* SizingExecutor.Execute
SizingExecute(d, e, sig, md, cfg) ==
    LET r == ChainExecute(d + 1, e, sig, md, SizingConfig(dchain[d].Sizer, cfg))
    IN  Result(r.e, r.err, <<Entry(d, "Execute", sig, md, cfg, r.err)>> \o r.log)

\* the loop of TWAPExecutor.Execute and VWAPExecutor.Execute from slice i
\* on, cfgs[i] being the config of slice i
SliceLoop(d, e, sig, md, cfgs, i) ==
    IF i > Len(cfgs) THEN Result(e, Nil, <<>>)
    ELSE LET r == ChainExecute(d + 1, e, sig, md, cfgs[i])
         IN  IF InnerFailed(r.err) THEN r
             ELSE LET rest == SliceLoop(d, r.e, sig, md, cfgs, i + 1)
                  IN  Result(rest.e, rest.err, r.log \o rest.log)

\* TWAPExecutor.Execute, run to its return
TwapExecute(d, e, sig, md, cfg) ==
    IF sig = SignalNone THEN Result(e, Nil, <<Entry(d, "Execute", sig, md, cfg, Nil)>>)
    ELSE LET n == dchain[d].Slices
             sliceCfg == [cfg EXCEPT !.StakeSize = Whole(TwapSliceSize(cfg, n))]
             r == SliceLoop(d, e, sig, md, [i \in 1..n |-> sliceCfg], 1)
         IN  Result(r.e, r.err, <<Entry(d, "Execute", sig, md, cfg, r.err)>> \o r.log)

\* VWAPExecutor.Execute, run to its return
VwapExecute(d, e, sig, md, cfg) ==
    IF sig = SignalNone THEN Result(e, Nil, <<Entry(d, "Execute", sig, md, cfg, Nil)>>)
    ELSE LET n == dchain[d].Slices
             weights == VwapWeights(cfg, sig, NoCandles, NoBook, n)
             cfgs == [i \in 1..n |->
                         [cfg EXCEPT !.StakeSize =
                             Whole(RatMul(RatInt(cfg.StakeSize), weights[i]))]]
             r == SliceLoop(d, e, sig, md, cfgs, 1)
         IN  Result(r.e, r.err, <<Entry(d, "Execute", sig, md, cfg, r.err)>> \o r.log)

\* Executor.Execute on the executor at depth d
ChainExecute(d, e, sig, md, cfg) ==
    IF d > Len(dchain)
    THEN LET r == SimExecute(e, sig, md, cfg)
         IN  Result(r.e, r.err, <<Entry(d, "Execute", sig, md, cfg, r.err)>>)
    ELSE CASE dchain[d].kind = "logging" -> LoggingExecute(d, e, sig, md, cfg)
           [] dchain[d].kind = "sizing" -> SizingExecute(d, e, sig, md, cfg)
           [] dchain[d].kind = "twap" -> TwapExecute(d, e, sig, md, cfg)
           [] dchain[d].kind = "vwap" -> VwapExecute(d, e, sig, md, cfg)

\* CancelAll on a decorator: LoggingExecutor, SizingExecutor, TWAPExecutor
\* and VWAPExecutor all return inner.CancelAll(ctx)
DecoratorCancelAll(d, e) ==
    LET r == ChainCancelAll(d + 1, e)
    IN  Result(r.e, r.err,
               <<Entry(d, "CancelAll", SignalNone, NoQuote, NoChainConfig, r.err)>> \o r.log)

\* Executor.CancelAll on the executor at depth d
ChainCancelAll(d, e) ==
    IF d > Len(dchain)
    THEN LET r == SimCancelAll(e)
         IN  Result(r.e, r.err,
                    <<Entry(d, "CancelAll", SignalNone, NoQuote, NoChainConfig, r.err)>>)
    ELSE DecoratorCancelAll(d, e)

\* cancels is the number of CancelAll calls in a row that ended with the
\* call before this one; cfgAfter is the caller's Config variable once the
\* call has returned
NoChainCall ==
    [op |-> "none", cancels |-> 0, sig |-> SignalNone, md |-> NoQuote,
     cfg |-> NoChainConfig, cfgAfter |-> NoChainConfig, err |-> Nil, log |-> <<>>]

ChainInit ==
    /\ dchain \in Chains
    /\ dsim = NewSimulatedExecutor
    /\ dcall = NoChainCall
    /\ dpre = NewSimulatedExecutor
    /\ dncalls = 0

\* the chain variables of a session that drives no decorated executor
ChainUnused ==
    /\ dchain = <<>>
    /\ dsim = NewSimulatedExecutor
    /\ dcall = NoChainCall
    /\ dpre = NewSimulatedExecutor
    /\ dncalls = 0

ChainIdle == dcall.op = "none"

\* Execute(ctx, sig, md, cfg) on the outermost executor.  cfg is passed by
\* value: what the decorators assign to it stays in their copies.
ChainExecuteCall(sig, md, cfg) ==
    /\ ChainIdle
    /\ dncalls < MaxChainCalls
    /\ LET r == ChainExecute(1, dsim, sig, md, cfg)
       IN  /\ dsim' = r.e
           /\ dcall' = [op |-> "Execute", cancels |-> dcall.cancels, sig |-> sig, md |-> md,
                        cfg |-> cfg, cfgAfter |-> cfg, err |-> r.err, log |-> r.log]
    /\ dpre' = dsim
    /\ dncalls' = dncalls + 1
    /\ UNCHANGED dchain
    /\ UNCHANGED nonChainVars

\* CancelAll(ctx) on the outermost executor
ChainCancelAllCall ==
    /\ ChainIdle
    /\ dcall.cancels < MaxCancels
    /\ LET r == ChainCancelAll(1, dsim)
       IN  /\ dsim' = r.e
           /\ dcall' = [NoChainCall EXCEPT !.op = "CancelAll", !.cancels = dcall.cancels,
                                           !.err = r.err, !.log = r.log]
    /\ dpre' = dsim
    /\ UNCHANGED <<dchain, dncalls>>
    /\ UNCHANGED nonChainVars

\* The caller takes the returned error; the chain keeps its state.
ChainReturn ==
    /\ ~ChainIdle
    /\ dcall' = [NoChainCall EXCEPT
                    !.cancels = IF dcall.op = "CancelAll" THEN dcall.cancels + 1 ELSE 0]
    /\ dpre' = dsim
    /\ UNCHANGED <<dchain, dsim, dncalls>>
    /\ UNCHANGED nonChainVars

ChainNext ==
    \/ \E sig \in Signals, md \in ChainQuotes, cfg \in ChainConfigs :
           ChainExecuteCall(sig, md, cfg)
    \/ ChainCancelAllCall
    \/ ChainReturn

----------------------------------------------------------------------------
(* Strategy combinators.  The sub-strategies of a composite are Strategy   *)
(* values of any kind: each Next on one returns some Signal.               *)

MaxSubs == 2

RECURSIVE CountSignal(_, _)
\* the counting loop of CompositeStrategy.Next
CountSignal(sigs, s) ==
    IF sigs = <<>> THEN 0
    ELSE (IF Head(sigs) = s THEN 1 ELSE 0) + CountSignal(Tail(sigs), s)

CompositeNextMajority(sigs) ==
    LET buyCount == CountSignal(sigs, SignalBuy)
        sellCount == CountSignal(sigs, SignalSell)
        n == Len(sigs)
    IN  IF 2 * buyCount > n THEN SignalBuy
        ELSE IF 2 * sellCount > n THEN SignalSell
        ELSE SignalNone

\* CompositeStrategy.Next, sigs[i] being what sub-strategy i returned
CompositeNext(sigs) ==
    LET buyCount == CountSignal(sigs, SignalBuy)
        sellCount == CountSignal(sigs, SignalSell)
        n == Len(sigs)
    IN  IF buyCount = n THEN SignalBuy
        ELSE IF sellCount = n THEN SignalSell
        ELSE SignalNone

\* MultiTimeframeStrategy.Next, given what Fast.Next and Slow.Next returned
MultiTimeframeNext(sigFast, sigSlow) == IF sigFast = sigSlow THEN sigFast ELSE SignalNone

\* the sequences of n signals
SignalSeqs(n) == [1..n -> Signals]

NoComboCall ==
    [done |-> FALSE, fastSigs |-> <<>>, slowSigs |-> <<>>, fast |-> SignalNone,
     slow |-> SignalNone, out |-> SignalNone]

\* &MultiTimeframeStrategy{Fast: NewCompositeStrategy(...), Slow: ...}
ComboInit ==
    /\ mtf \in [fast : 0..MaxSubs, slow : 0..MaxSubs]
    /\ mcall = NoComboCall

\* the combinator variables of a session that runs no combinator
ComboUnused ==
    /\ mtf = [fast |-> 0, slow |-> 0]
    /\ mcall = NoComboCall

\* one Next on the MultiTimeframeStrategy: Fast.Next, then Slow.Next, each
\* calling every one of its sub-strategies
MultiTimeframeNextCall(fastSigs, slowSigs) ==
    /\ ~mcall.done
    /\ fastSigs \in SignalSeqs(mtf.fast)
    /\ slowSigs \in SignalSeqs(mtf.slow)
    /\ LET sigFast == CompositeNext(fastSigs)
           sigSlow == CompositeNext(slowSigs)
       IN  mcall' = [done |-> TRUE, fastSigs |-> fastSigs, slowSigs |-> slowSigs,
                     fast |-> sigFast, slow |-> sigSlow,
                     out |-> MultiTimeframeNext(sigFast, sigSlow)]
    /\ UNCHANGED mtf
    /\ UNCHANGED nonComboVars

ComboNext ==
    \E fastSigs \in UNION {SignalSeqs(n) : n \in 0..MaxSubs},
       slowSigs \in UNION {SignalSeqs(n) : n \in 0..MaxSubs} :
        MultiTimeframeNextCall(fastSigs, slowSigs)

----------------------------------------------------------------------------
(* SMAStrategy.  Prices are the exact mid-prices; the running sums and the *)
(* averages are exact.                                                     *)

MaxWindow == 3

\* Next calls in a session
MaxQuotes == 5

\* NewSMAStrategy(shortWindow, longWindow), for windows it accepts
NewSMAStrategy(shortWindow, longWindow) ==
    [ShortWindow |-> shortWindow, LongWindow |-> longWindow,
     shortBuf |-> <<>>, longBuf |-> <<>>, shortSum |-> 0, longSum |-> 0]

ValidWindowsUnordered(shortWindow, longWindow) ==
    ~(shortWindow <= 0 \/ longWindow <= 0)

\* not (shortWindow <= 0 || longWindow <= 0 || shortWindow >= longWindow)
ValidWindows(shortWindow, longWindow) ==
    ~(shortWindow <= 0 \/ longWindow <= 0 \/ shortWindow >= longWindow)

\* the quotes fed to the strategy: mid-prices 7, 10 and 13
SmaQuotes ==
    {[Bid |-> 6, Ask |-> 8, Timestamp |-> 1], [Bid |-> 10, Ask |-> 10, Timestamp |-> 1],
     [Bid |-> 12, Ask |-> 14, Timestamp |-> 1]}

\* the fields of Config that SMAStrategy.Next reads
SmaConfigs == [EntryThreshold : {0, 1}, ExitThreshold : {0, 1}]

\* append price to a rolling buffer and its sum, dropping the oldest entry
\* once the buffer is longer than window
Roll(buf, sum, price, window) ==
    LET b == Append(buf, price)
        t == sum + price
    IN  IF Len(b) > window THEN [buf |-> Tail(b), sum |-> t - Head(b)]
        ELSE [buf |-> b, sum |-> t]

SmaWarmingUpShort(s) == Len(s.shortBuf) < s.ShortWindow

\* if len(s.longBuf) < s.LongWindow: not enough data yet
SmaWarmingUp(s) == Len(s.longBuf) < s.LongWindow

SmaSignalInverted(shortAvg, longAvg, cfg) ==
    IF FLess(RatAdd(longAvg, RatInt(cfg.EntryThreshold)), shortAvg) THEN SignalSell
    ELSE IF FLess(shortAvg, RatSub(longAvg, RatInt(cfg.ExitThreshold))) THEN SignalBuy
    ELSE SignalNone

\* the entry and exit tests that close SMAStrategy.Next
SmaSignal(shortAvg, longAvg, cfg) ==
    IF FLess(RatAdd(longAvg, RatInt(cfg.EntryThreshold)), shortAvg) THEN SignalBuy
    ELSE IF FLess(shortAvg, RatSub(longAvg, RatInt(cfg.ExitThreshold))) THEN SignalSell
    ELSE SignalNone

\* SMAStrategy.Next: the strategy after the call and the signal returned
SmaNext(s, data, cfg) ==
    LET price == Mid(data)
        short == Roll(s.shortBuf, s.shortSum, price, s.ShortWindow)
        long == Roll(s.longBuf, s.longSum, price, s.LongWindow)
        s2 == [s EXCEPT !.shortBuf = short.buf, !.shortSum = short.sum,
                        !.longBuf = long.buf, !.longSum = long.sum]
    IN  [s |-> s2,
         sig |-> IF SmaWarmingUp(s2) THEN SignalNone
                 ELSE SmaSignal(Rat(s2.shortSum, s2.ShortWindow),
                                Rat(s2.longSum, s2.LongWindow), cfg)]

SmaInit ==
    /\ sma \in {NewSMAStrategy(w[1], w[2]) :
                   w \in {x \in (1..MaxWindow) \X (1..MaxWindow) : ValidWindows(x[1], x[2])}}
    /\ smacfg \in SmaConfigs
    /\ smain = <<>>
    /\ smaout = <<>>

\* the SMA variables of a session that runs no SMAStrategy
SmaUnused ==
    /\ sma = NewSMAStrategy(1, 2)
    /\ smacfg = [EntryThreshold |-> 0, ExitThreshold |-> 0]
    /\ smain = <<>>
    /\ smaout = <<>>

\* one call s.Next(data, cfg)
SmaNextCall(data) ==
    /\ Len(smain) < MaxQuotes
    /\ LET r == SmaNext(sma, data, smacfg)
       IN  /\ sma' = r.s
           /\ smaout' = Append(smaout, r.sig)
    /\ smain' = Append(smain, Mid(data))
    /\ UNCHANGED smacfg
    /\ UNCHANGED nonSmaVars

SmaSpecNext == \E data \in SmaQuotes : SmaNextCall(data)

----------------------------------------------------------------------------
(* RSIStrategy.  Prices are the exact mid-prices; gains, losses and the    *)
(* index are float64 values.                                               *)

MaxPeriod == 2

\* Next calls in a session
MaxRsiQuotes == 4

\* -x on float64
FNeg(x) == [num |-> -x.num, den |-> x.den]

\* x + y on float64
FAdd(x, y) == FSub(x, FNeg(y))

\* x >= y on float64
FGeq(x, y) == x # NaN /\ y # NaN /\ ~FLess(x, y)

\* NewRSIStrategy(period, overbought, oversold), for a period it accepts
NewRSIStrategy(period, overbought, oversold) ==
    [Period |-> period, Overbought |-> overbought, Oversold |-> oversold,
     prices |-> <<>>]

\* the quotes fed to the strategy: mid-prices 95, 100 and 105
RsiQuotes ==
    {[Bid |-> 94, Ask |-> 96, Timestamp |-> 1], [Bid |-> 100, Ask |-> 100, Timestamp |-> 1],
     [Bid |-> 104, Ask |-> 106, Timestamp |-> 1]}

\* the levels a strategy is constructed with
RsiLevels == {0, 30, 70, 100}

\* the price changes over the last period samples: prices[i+1] - prices[i]
\* for i from last - period to last - 1
RsiDeltas(prices, period) ==
    [k \in 1..period |->
        prices[Len(prices) - period + k] - prices[Len(prices) - period + k - 1]]

\* gainSum and lossSum after the loop over the deltas
RsiSums(deltas) ==
    [gainSum |-> SumSeq([k \in 1..Len(deltas) |-> IF deltas[k] > 0 THEN deltas[k] ELSE 0]),
     lossSum |-> SumSeq([k \in 1..Len(deltas) |-> IF deltas[k] > 0 THEN 0 ELSE -deltas[k]])]

RsiNoLossNever(avgLoss) == FALSE

\* if avgLoss == 0
RsiNoLoss(avgLoss) == avgLoss = RatInt(0)

\* rsi := 100 - (100 / (1 + rs)) with rs := avgGain / avgLoss
RsiIndex(avgGain, avgLoss) ==
    FSub(RatInt(100), FDiv(RatInt(100), FAdd(RatInt(1), FDiv(avgGain, avgLoss))))

\* RSIStrategy.Next: the strategy after the call and the signal returned
RsiNext(r, data, cfg) ==
    LET price == Mid(data)
        r2 == [r EXCEPT !.prices = Append(r.prices, price)]
        sums == RsiSums(RsiDeltas(r2.prices, r2.Period))
        avgGain == Rat(sums.gainSum, r2.Period)
        avgLoss == Rat(sums.lossSum, r2.Period)
        index == RsiIndex(avgGain, avgLoss)
    IN  [r |-> r2,
         sig |-> IF Len(r2.prices) <= r2.Period THEN SignalNone
                 ELSE IF RsiNoLoss(avgLoss) THEN SignalNone
                 ELSE IF FGeq(index, RatInt(r2.Overbought)) THEN SignalSell
                 ELSE IF FGeq(RatInt(r2.Oversold), index) THEN SignalBuy
                 ELSE SignalNone]

RsiInit ==
    /\ rsi \in {NewRSIStrategy(period, overbought, oversold) :
                   period \in 1..MaxPeriod, overbought \in RsiLevels, oversold \in RsiLevels}
    /\ rsiout = <<>>

\* the RSI variables of a session that runs no RSIStrategy
RsiUnused ==
    /\ rsi = NewRSIStrategy(1, 70, 30)
    /\ rsiout = <<>>

\* one call r.Next(data, cfg); Next reads nothing of cfg
RsiNextCall(data) ==
    /\ Len(rsiout) < MaxRsiQuotes
    /\ LET res == RsiNext(rsi, data, NoConfig)
       IN  /\ rsi' = res.r
           /\ rsiout' = Append(rsiout, res.sig)
    /\ UNCHANGED nonRsiVars

RsiSpecNext == \E data \in RsiQuotes : RsiNextCall(data)

----------------------------------------------------------------------------
(* ThresholdStrategy.  Bid and ask are integers, the thresholds are exact  *)
(* fractions; rounding of the products is left out.                        *)

\* Next calls in a session
MaxThrCalls == 2

\* &ThresholdStrategy{}: a struct without fields
NewThresholdStrategy == <<>>

\* the quotes fed to the strategy: spreads of 0, 4 and 10 per cent
ThrQuotes ==
    {[Bid |-> 100, Ask |-> 100, Timestamp |-> 1], [Bid |-> 100, Ask |-> 104, Timestamp |-> 1],
     [Bid |-> 100, Ask |-> 110, Timestamp |-> 1]}

\* the fields of Config that ThresholdStrategy.Next reads: -5, 0 and 5 per cent
ThrConfigs ==
    [EntryThreshold : {Rat(-1, 20), RatInt(0), Rat(1, 20)},
     ExitThreshold : {Rat(-1, 20), RatInt(0), Rat(1, 20)}]

\* ask > bid*(1+cfg.EntryThreshold)
AboveEntry(bid, ask, cfg) ==
    FLess(FMul(RatInt(bid), FAdd(RatInt(1), cfg.EntryThreshold)), RatInt(ask))

\* bid < ask*(1-cfg.ExitThreshold)
BelowExit(bid, ask, cfg) ==
    FLess(RatInt(bid), FMul(RatInt(ask), FSub(RatInt(1), cfg.ExitThreshold)))

ThresholdEntryUnguarded(bid, ask, cfg) == AboveEntry(bid, ask, cfg)

\* cfg.EntryThreshold > 0 && ask > bid*(1+cfg.EntryThreshold)
ThresholdEntry(bid, ask, cfg) ==
    FLess(RatInt(0), cfg.EntryThreshold) /\ AboveEntry(bid, ask, cfg)

\* cfg.ExitThreshold > 0 && bid < ask*(1-cfg.ExitThreshold)
ThresholdExit(bid, ask, cfg) ==
    FLess(RatInt(0), cfg.ExitThreshold) /\ BelowExit(bid, ask, cfg)

\* ThresholdStrategy.Next: the strategy after the call and the signal returned
ThresholdNext(s, data, cfg) ==
    LET bid == data.Bid
        ask == data.Ask
    IN  [s |-> s,
         sig |-> IF ThresholdEntry(bid, ask, cfg) THEN SignalBuy
                 ELSE IF ThresholdExit(bid, ask, cfg) THEN SignalSell
                 ELSE SignalNone]

ThrInit ==
    /\ thr = NewThresholdStrategy
    /\ thrcalls = <<>>

\* the threshold variables of a session that runs no ThresholdStrategy
ThrUnused ==
    /\ thr = NewThresholdStrategy
    /\ thrcalls = <<>>

\* one call s.Next(data, cfg)
ThresholdNextCall(data, cfg) ==
    /\ Len(thrcalls) < MaxThrCalls
    /\ LET res == ThresholdNext(thr, data, cfg)
       IN  /\ thr' = res.s
           /\ thrcalls' = Append(thrcalls, [md |-> data, cfg |-> cfg, sig |-> res.sig])
    /\ UNCHANGED nonThrVars

ThrSpecNext == \E data \in ThrQuotes, cfg \in ThrConfigs : ThresholdNextCall(data, cfg)

----------------------------------------------------------------------------
(* Construction of the indicator strategies.  A Go int is an IntBits-bit    *)
(* two's-complement integer: doubling a period wraps around.  A panic in a  *)
(* constructor leaves no strategy behind.                                   *)

IntBits == 4

\* Next calls on a constructed strategy
MaxCtorQuotes == 6

Pow2(n) == 2 ^ n

\* the value an int holds after an arithmetic result x
WrapInt(x) == ((x + Pow2(IntBits - 1)) % Pow2(IntBits)) - Pow2(IntBits - 1)

Ints == (-Pow2(IntBits - 1))..(Pow2(IntBits - 1) - 1)

Panic == "panic"

\* not (period <= 0)
ValidRSIPeriod(period) == ~(period <= 0)

\* not (fast <= 0 || slow <= 0 || signal <= 0)
ValidMACDPeriods(fast, slow, signal) == ~(fast <= 0 \/ slow <= 0 \/ signal <= 0)

\* not (period <= 0 || multiplier <= 0)
ValidBBands(period, multiplier) == ~(period <= 0 \/ multiplier <= 0)

\* the indicator fields of config.Config the constructors are given
CtorConfigs ==
    [ShortWindow : Ints, LongWindow : Ints, RSIPeriod : {0, 1, 4},
     MACDFastPeriod : {0, 1}, MACDSlowPeriod : {1}, MACDSignalPeriod : {1},
     BBPeriod : {1}, BBMultiplier : {0, 2}]

\* the quotes fed to the constructed strategies: mid-prices 7 and 13
CtorQuotes == {q \in SmaQuotes : Mid(q) # 10}

\* the five strategies of one timeframe are constructed without a panic
TimeframeBuilt(cfg, factor) ==
    /\ ValidWindows(WrapInt(cfg.ShortWindow * factor), WrapInt(cfg.LongWindow * factor))
    /\ ValidRSIPeriod(WrapInt(cfg.RSIPeriod * factor))
    /\ ValidMACDPeriods(WrapInt(cfg.MACDFastPeriod * factor),
                        WrapInt(cfg.MACDSlowPeriod * factor),
                        WrapInt(cfg.MACDSignalPeriod * factor))
    /\ ValidBBands(WrapInt(cfg.BBPeriod * factor), cfg.BBMultiplier)

\* NewMultiTimeframeStrategy(cfg): the SMA strategies of the fast and of the
\* slow composite, or a panic of one of the ten constructors
NewMultiTimeframeStrategy(cfg) ==
    IF TimeframeBuilt(cfg, 1) /\ TimeframeBuilt(cfg, 2)
    THEN [panic |-> FALSE,
          smas |-> <<NewSMAStrategy(cfg.ShortWindow, cfg.LongWindow),
                     NewSMAStrategy(WrapInt(cfg.ShortWindow * 2),
                                    WrapInt(cfg.LongWindow * 2))>>]
    ELSE [panic |-> TRUE, smas |-> <<>>]

NoCtorCall == [op |-> "none"]

CtorInit ==
    /\ cargs = NoCtorCall
    /\ cpanic = FALSE
    /\ cbuilt = <<>>
    /\ csigs = <<>>

\* the construction variables of a session that constructs nothing
CtorUnused == CtorInit

\* NewSMAStrategy(shortWindow, longWindow), whatever the windows
NewSMAStrategyCall(shortWindow, longWindow) ==
    /\ cargs = NoCtorCall
    /\ cargs' = [op |-> "sma", ShortWindow |-> shortWindow, LongWindow |-> longWindow]
    /\ IF ValidWindows(shortWindow, longWindow)
       THEN /\ cpanic' = FALSE
            /\ cbuilt' = <<NewSMAStrategy(shortWindow, longWindow)>>
            /\ csigs' = <<<<>>>>
       ELSE /\ cpanic' = TRUE
            /\ UNCHANGED <<cbuilt, csigs>>
    /\ UNCHANGED nonCtorVars

\* NewMultiTimeframeStrategy(cfg), whatever the periods
NewMultiTimeframeStrategyCall(cfg) ==
    /\ cargs = NoCtorCall
    /\ cargs' = [op |-> "mtf", cfg |-> cfg]
    /\ LET r == NewMultiTimeframeStrategy(cfg)
       IN  /\ cpanic' = r.panic
           /\ cbuilt' = r.smas
           /\ csigs' = [i \in 1..Len(r.smas) |-> <<>>]
    /\ UNCHANGED nonCtorVars

\* one quote reaches the strategies built: s.Next(data, cfg) on each SMA
\* strategy, as CompositeStrategy.Next calls its members
CtorNextCall(data) ==
    /\ cbuilt # <<>>
    /\ Len(csigs[1]) < MaxCtorQuotes
    /\ LET cfg == [EntryThreshold |-> 0, ExitThreshold |-> 0]
           r == [i \in 1..Len(cbuilt) |-> SmaNext(cbuilt[i], data, cfg)]
       IN  /\ cbuilt' = [i \in 1..Len(cbuilt) |-> r[i].s]
           /\ csigs' = [i \in 1..Len(cbuilt) |-> Append(csigs[i], r[i].sig)]
    /\ UNCHANGED <<cargs, cpanic>>
    /\ UNCHANGED nonCtorVars

CtorSpecNext ==
    \/ \E shortWindow \in Ints, longWindow \in Ints :
          NewSMAStrategyCall(shortWindow, longWindow)
    \/ \E cfg \in CtorConfigs : NewMultiTimeframeStrategyCall(cfg)
    \/ \E data \in CtorQuotes : CtorNextCall(data)

----------------------------------------------------------------------------
(* The /backtest handler: one request replays the closes of the candles     *)
(* the broker returns through a fresh SMAStrategy.  Closes are integers,    *)
(* the fee rate and the amounts are exact fractions.  Bar i carries the     *)
(* timestamp i: candles come in time order.  The Sharpe ratio, which takes  *)
(* square roots, is kept as its sign and its square.                        *)

\* candles in a response
MaxBars == 5

RECURSIVE RatSumSeq(_)
RatSumSeq(q) == IF q = <<>> THEN RatInt(0) ELSE RatAdd(Head(q), RatSumSeq(Tail(q)))

\* the request body: short, long, fee_rate
BacktestRequests == [Short : 0..MaxWindow, Long : 0..MaxWindow, FeeRate : {RatInt(0), Rat(1, 100)}]

\* the closes of the candles
BacktestCloses == {95, 100, 105}

\* var cfg bot.Config with EntryThreshold = 0, ExitThreshold = 0, StakeSize = 1
BacktestConfig == [EntryThreshold |-> 0, ExitThreshold |-> 0, StakeSize |-> 1]

NoBacktest ==
    [pc |-> "idle", status |-> 0, req |-> [Short |-> 0, Long |-> 0, FeeRate |-> RatInt(0)],
     strat |-> NewSMAStrategy(1, 2), inPos |-> FALSE, entry |-> 0,
     trades |-> 0, wins |-> 0, losses |-> 0, pnlTotal |-> RatInt(0),
     profits |-> <<>>, peak |-> RatInt(0), maxDD |-> RatInt(0)]

NoBacktestResponse == [trades |-> -1]

BacktestProfitGross(entry, price, cfg, feeRate) == RatInt((price - entry) * cfg.StakeSize)

\* profit := profitGross - feeCost
BacktestProfit(entry, price, cfg, feeRate) ==
    RatSub(RatInt((price - entry) * cfg.StakeSize),
           RatMul(RatInt((entry + price) * cfg.StakeSize), feeRate))

\* the Sharpe ratio of the trade profits: mean / std * sqrt(len), when there
\* are at least two profits and std > 0
BacktestSharpe(profits) ==
    LET n == Len(profits)
        mean == FDiv(RatSumSeq(profits), RatInt(n))
        sumsq == RatSumSeq([k \in 1..n |->
                     RatMul(RatSub(profits[k], mean), RatSub(profits[k], mean))])
    IN  IF n > 1 /\ sumsq.num > 0
        THEN [sign |-> Sign(mean),
              square |-> FDiv(RatMul(RatMul(mean, mean), RatInt(n * (n - 1))), sumsq)]
        ELSE [sign |-> 0, square |-> RatInt(0)]

\* the body of the loop over the closes, for bar i with close price: the
\* handler's locals after it and the entry of the two histories
BacktestStep(b, i, price) ==
    LET md == [Bid |-> price, Ask |-> price, Timestamp |-> i]
        r == SmaNext(b.strat, md, BacktestConfig)
        sig == r.sig
        profit == BacktestProfit(b.entry, price, BacktestConfig, b.req.FeeRate)
        b1 == IF sig = SignalBuy /\ ~b.inPos
              THEN [b EXCEPT !.entry = price, !.inPos = TRUE]
              ELSE IF sig = SignalSell /\ b.inPos
              THEN [b EXCEPT !.pnlTotal = RatAdd(b.pnlTotal, profit),
                             !.profits = Append(b.profits, profit),
                             !.trades = b.trades + 1,
                             !.wins = IF profit.num > 0 THEN b.wins + 1 ELSE b.wins,
                             !.losses = IF profit.num > 0 THEN b.losses ELSE b.losses + 1,
                             !.inPos = FALSE]
              ELSE b
        peak == IF FLess(b1.peak, b1.pnlTotal) THEN b1.pnlTotal ELSE b1.peak
        dd == RatSub(peak, b1.pnlTotal)
        maxDD == IF FLess(b1.maxDD, dd) THEN dd ELSE b1.maxDD
    IN  [b |-> [b1 EXCEPT !.strat = r.s, !.peak = peak, !.maxDD = maxDD],
         bar |-> [time |-> i, price |-> price, sig |-> sig, inPos |-> b1.inPos,
                  entry |-> b1.entry, pnl |-> b1.pnlTotal, drawdown |-> dd]]

BacktestInit ==
    /\ bt = NoBacktest
    /\ bthist = <<>>
    /\ btresp = NoBacktestResponse

\* the backtest variables of a session that serves no /backtest request
BacktestUnused == BacktestInit

\* POST /backtest up to the loop: GetCandles fails (500), NewSMAStrategy
\* panics (500 from the recovery middleware), or the loop starts
BacktestRequest(req, candlesErr) ==
    /\ bt.pc = "idle"
    /\ bt' = IF candlesErr # Nil \/ ~ValidWindows(req.Short, req.Long)
             THEN [bt EXCEPT !.pc = "done", !.status = 500, !.req = req]
             ELSE [bt EXCEPT !.pc = "loop", !.req = req,
                             !.strat = NewSMAStrategy(req.Short, req.Long)]
    /\ UNCHANGED <<bthist, btresp>>
    /\ UNCHANGED nonBacktestVars

\* one iteration of the loop, on the next candle of the response
BacktestBar(price) ==
    /\ bt.pc = "loop"
    /\ Len(bthist) < MaxBars
    /\ LET r == BacktestStep(bt, Len(bthist) + 1, price)
       IN  /\ bt' = r.b
           /\ bthist' = Append(bthist, r.bar)
    /\ UNCHANGED btresp
    /\ UNCHANGED nonBacktestVars

\* the candles are exhausted: the metrics are computed and sent with 200
BacktestRespond ==
    /\ bt.pc = "loop"
    /\ bt' = [bt EXCEPT !.pc = "done", !.status = 200]
    /\ btresp' =
          [trades |-> bt.trades, wins |-> bt.wins, losses |-> bt.losses,
           win_rate |-> IF bt.trades > 0 THEN Rat(bt.wins * 100, bt.trades) ELSE RatInt(0),
           total_pnl |-> bt.pnlTotal,
           avg_pnl |-> IF bt.trades > 0 THEN FDiv(bt.pnlTotal, RatInt(bt.trades))
                       ELSE RatInt(0),
           sharpe |-> BacktestSharpe(bt.profits),
           max_drawdown |-> bt.maxDD,
           pnl_history |-> [k \in 1..Len(bthist) |-> bthist[k].pnl],
           drawdown_history |-> [k \in 1..Len(bthist) |-> bthist[k].drawdown]]
    /\ UNCHANGED bthist
    /\ UNCHANGED nonBacktestVars

BacktestNext ==
    \/ \E req \in BacktestRequests, candlesErr \in {Nil, ErrBroker} :
          BacktestRequest(req, candlesErr)
    \/ \E price \in BacktestCloses : BacktestBar(price)
    \/ BacktestRespond

----------------------------------------------------------------------------
(* The /thresholds handler: the grid search over entry and exit            *)
(* thresholds.  The grid variables e and x are floating-point numbers: a   *)
(* sum is rounded to the nearest number with a FloatBits-bit significand,  *)
(* ties to even, and the decimal numbers of the request are parsed to the  *)
(* nearest such number.  float64 has 53 bits; with 9 the sums 0.01 + 0.04   *)
(* and 0.1 + 0.1 + 0.1 round to the same side of 0.05 and 0.3 as they do   *)
(* with 53.  Closes are integers and the amounts of the simulation are     *)
(* exact.                                                                  *)

FloatBits == 9

\* pairs in a request
MaxPairs == 2

\* combinations evaluated for one pair
MaxEvals == 9

\* the e with 2^e <= n/d < 2^(e+1), for n, d > 0
RECURSIVE FloatExponent(_, _, _)
FloatExponent(n, d, e) ==
    IF n >= 2 * d THEN FloatExponent(n, 2 * d, e + 1)
    ELSE IF n < d THEN FloatExponent(2 * n, d, e - 1)
    ELSE e

\* the floating-point number nearest to the rational x, ties to even
FloatRound(x) ==
    IF x.num = 0 THEN RatInt(0)
    ELSE LET n == Abs(x.num)
             shift == FloatBits - 1 - FloatExponent(n, x.den, 0)
             qn == IF shift >= 0 THEN n * Pow2(shift) ELSE n
             qd == IF shift >= 0 THEN x.den ELSE x.den * Pow2(-shift)
             m == qn \div qd
             rem == qn % qd
             up == 2 * rem > qd \/ (2 * rem = qd /\ m % 2 = 1)
             m2 == Sign(x) * (IF up THEN m + 1 ELSE m)
         IN  IF shift >= 0 THEN Rat(m2, Pow2(shift)) ELSE RatInt(m2 * Pow2(-shift))

\* x + y on floating-point numbers, whose denominators are powers of two
FloatSum(x, y) ==
    LET d == IF x.den > y.den THEN x.den ELSE y.den
    IN  FloatRound(Rat(x.num * (d \div x.den) + y.num * (d \div y.den), d))

\* x <= y on finite numbers
RatLeq(x, y) == x.num * y.den <= y.num * x.den

\* the decimal numbers n/100 a request states as grid_start, grid_end, grid_step
GridDecimals ==
    {<<1, 5, 4>>, <<10, 30, 10>>, <<10, 50, 20>>, <<5, 1, 4>>, <<1, 5, 0>>, <<1, 5, -4>>}

\* the request body after binding
ThresholdRequests ==
    {[Pairs |-> n, FeeRate |-> fee, Decimals |-> g,
      GridStart |-> FloatRound(Rat(g[1], 100)), GridEnd |-> FloatRound(Rat(g[2], 100)),
      GridStep |-> FloatRound(Rat(g[3], 100))] :
        n \in 1..MaxPairs, fee \in {RatInt(0), Rat(1, 100)}, g \in GridDecimals}

\* what GetCandles returns for a pair: an error, no candle, or closes
GridCandles ==
    {[err |-> ErrBroker, closes |-> <<>>], [err |-> Nil, closes |-> <<>>],
     [err |-> Nil, closes |-> <<100, 105, 95, 100>>],
     [err |-> Nil, closes |-> <<100, 125, 120, 100, 130, 90>>]}

\* -math.MaxFloat64: below every total the simulation reaches
NegMaxFloat64 == NegInf

\* the simulation of one (e, x) combination over the closes from the k-th on
RECURSIVE GridSimulate(_, _, _, _, _, _)
GridSimulateTakeProfit(closes, k, e, x, feeRate, st) ==
    IF k > Len(closes) THEN st
    ELSE LET price == closes[k]
             s1 == IF ~st.inPos /\ FLess(RatMul(RatInt(closes[1]), RatAdd(RatInt(1), e)),
                                         RatInt(price))
                   THEN [st EXCEPT !.inPos = TRUE, !.entry = price]
                   ELSE st
             profit == RatSub(RatInt(price - s1.entry),
                              RatMul(RatInt(s1.entry + price), feeRate))
             s2 == IF s1.inPos /\ FLess(RatMul(RatInt(s1.entry), RatAdd(RatInt(1), x)),
                                        RatInt(price))
                   THEN [s1 EXCEPT !.pnlTotal = RatAdd(s1.pnlTotal, profit),
                                   !.trades = s1.trades + 1,
                                   !.wins = IF profit.num > 0 THEN s1.wins + 1 ELSE s1.wins,
                                   !.inPos = FALSE]
                   ELSE s1
         IN  GridSimulate(closes, k + 1, e, x, feeRate, s2)

GridSimulate(closes, k, e, x, feeRate, st) ==
    IF k > Len(closes) THEN st
    ELSE LET price == closes[k]
             s1 == IF ~st.inPos /\ FLess(RatMul(RatInt(closes[1]), RatAdd(RatInt(1), e)),
                                         RatInt(price))
                   THEN [st EXCEPT !.inPos = TRUE, !.entry = price]
                   ELSE st
             profit == RatSub(RatInt(price - s1.entry),
                              RatMul(RatInt(s1.entry + price), feeRate))
             s2 == IF s1.inPos /\ FLess(RatInt(price),
                                        RatMul(RatInt(s1.entry), RatSub(RatInt(1), x)))
                   THEN [s1 EXCEPT !.pnlTotal = RatAdd(s1.pnlTotal, profit),
                                   !.trades = s1.trades + 1,
                                   !.wins = IF profit.num > 0 THEN s1.wins + 1 ELSE s1.wins,
                                   !.inPos = FALSE]
                   ELSE s1
         IN  GridSimulate(closes, k + 1, e, x, feeRate, s2)

\* total PnL and win rate of one combination
GridEvaluate(closes, e, x, feeRate) ==
    LET st == GridSimulate(closes, 1, e, x, feeRate,
                  [inPos |-> FALSE, entry |-> 0, pnlTotal |-> RatInt(0),
                   wins |-> 0, trades |-> 0])
    IN  [e |-> e, x |-> x, pnlTotal |-> st.pnlTotal,
         wr |-> IF st.trades > 0 THEN Rat(st.wins * 100, st.trades) ELSE RatInt(0)]

GridBetterOrEqual(pnlTotal, bestPnl) == ~FLess(pnlTotal, bestPnl)

\* if pnlTotal > bestPnl
GridBetter(pnlTotal, bestPnl) == FLess(bestPnl, pnlTotal)

NoGrid ==
    [pc |-> "idle", status |-> 0,
     req |-> [Pairs |-> 0, FeeRate |-> RatInt(0), Decimals |-> <<0, 0, 0>>,
              GridStart |-> RatInt(0), GridEnd |-> RatInt(0), GridStep |-> RatInt(0)],
     pair |-> 0, closes |-> <<>>, e |-> RatInt(0), x |-> RatInt(0),
     bestPnl |-> NegMaxFloat64, be |-> RatInt(0), bx |-> RatInt(0), bwr |-> RatInt(0)]

GridInit ==
    /\ grid = NoGrid
    /\ gevals = <<>>
    /\ results = <<>>

\* the grid variables of a session that serves no /thresholds request
GridUnused == GridInit

\* POST /thresholds: the request is bound and the loop over the pairs starts
ThresholdsRequest(req) ==
    /\ grid.pc = "idle"
    /\ grid' = [grid EXCEPT !.pc = "pairs", !.req = req, !.pair = 1]
    /\ gevals' = [p \in 1..req.Pairs |-> <<>>]
    /\ UNCHANGED results
    /\ UNCHANGED nonGridVars

\* the head of the loop over the pairs: GetCandles for the next pair, which
\* is skipped on an error or an empty answer; otherwise the grid loops start
ThresholdsPair(candles) ==
    /\ grid.pc = "pairs"
    /\ grid.pair <= grid.req.Pairs
    /\ grid' = IF candles.err # Nil \/ Len(candles.closes) = 0
               THEN [grid EXCEPT !.pair = grid.pair + 1]
               ELSE [grid EXCEPT !.pc = "grid", !.closes = candles.closes,
                                 !.bestPnl = NegMaxFloat64, !.be = RatInt(0),
                                 !.bx = RatInt(0), !.bwr = RatInt(0),
                                 !.e = grid.req.GridStart, !.x = grid.req.GridStart]
    /\ UNCHANGED <<gevals, results>>
    /\ UNCHANGED nonGridVars

\* one iteration of the inner loop: x <= req.GridEnd
GridCombination ==
    /\ grid.pc = "grid"
    /\ RatLeq(grid.e, grid.req.GridEnd)
    /\ RatLeq(grid.x, grid.req.GridEnd)
    /\ Len(gevals[grid.pair]) < MaxEvals
    /\ LET r == GridEvaluate(grid.closes, grid.e, grid.x, grid.req.FeeRate)
           g == IF GridBetter(r.pnlTotal, grid.bestPnl)
                THEN [grid EXCEPT !.bestPnl = r.pnlTotal, !.be = grid.e, !.bx = grid.x,
                                  !.bwr = r.wr]
                ELSE grid
       IN  /\ grid' = [g EXCEPT !.x = FloatSum(grid.x, grid.req.GridStep)]
           /\ gevals' = [gevals EXCEPT ![grid.pair] = Append(@, r)]
    /\ UNCHANGED results
    /\ UNCHANGED nonGridVars

\* the inner loop ends: e += req.GridStep and x starts over
GridNextEntry ==
    /\ grid.pc = "grid"
    /\ RatLeq(grid.e, grid.req.GridEnd)
    /\ ~RatLeq(grid.x, grid.req.GridEnd)
    /\ grid' = [grid EXCEPT !.e = FloatSum(grid.e, grid.req.GridStep),
                            !.x = grid.req.GridStart]
    /\ UNCHANGED <<gevals, results>>
    /\ UNCHANGED nonGridVars

\* the outer loop ends: the pair's ThresholdResult is appended
GridPairDone ==
    /\ grid.pc = "grid"
    /\ ~RatLeq(grid.e, grid.req.GridEnd)
    /\ results' = Append(results,
           [Pair |-> grid.pair, EntryThreshold |-> grid.be, ExitThreshold |-> grid.bx,
            TotalPnl |-> grid.bestPnl, WinRate |-> grid.bwr])
    /\ grid' = [grid EXCEPT !.pc = "pairs", !.pair = grid.pair + 1]
    /\ UNCHANGED gevals
    /\ UNCHANGED nonGridVars

\* the pairs are exhausted: c.JSON(http.StatusOK, results)
ThresholdsRespond ==
    /\ grid.pc = "pairs"
    /\ grid.pair > grid.req.Pairs
    /\ grid' = [grid EXCEPT !.pc = "done", !.status = 200]
    /\ UNCHANGED <<gevals, results>>
    /\ UNCHANGED nonGridVars

GridNext ==
    \/ \E req \in ThresholdRequests : ThresholdsRequest(req)
    \/ \E candles \in GridCandles : ThresholdsPair(candles)
    \/ GridCombination
    \/ GridNextEntry
    \/ GridPairDone
    \/ ThresholdsRespond

----------------------------------------------------------------------------
(* The /autoscan/start and /autoscan/stop handlers and the goroutine a      *)
(* start spawns.  Requests are served one after the other.  A panic in the  *)
(* goroutine is recovered by nobody: it ends the process, and requests      *)
(* made afterwards get no response.  Requests ask for no auto-execution.    *)

\* requests in a session
MaxAutoRequests == 4

\* the request body of /autoscan/start: whether it binds, and interval_seconds
AutoScanBodies == [binds : BOOLEAN, IntervalSeconds : {0, 1}]

NoResponse == 0

\* time.NewTicker panics on a non-positive duration
TickerPanics(d) == d <= 0

AutoInit ==
    /\ autoScanCancel = 0
    /\ scans = <<>>
    /\ crashed = FALSE
    /\ areqs = <<>>

\* the auto-scan variables of a session without auto-scan requests
AutoUnused == AutoInit

\* a scan goroutine is at work: its context is not cancelled, it has not
\* returned, and the process is up
Running ==
    /\ ~crashed
    /\ \E g \in 1..Len(scans) : ~scans[g].done /\ scans[g].pc # "returned"

Logged(op, binds, status, msg) ==
    [op |-> op, binds |-> binds, status |-> status, msg |-> msg, running |-> Running]

\* POST /autoscan/start
AutoScanStart(body) ==
    /\ Len(areqs) < MaxAutoRequests
    /\ IF crashed
       THEN /\ areqs' = Append(areqs, Logged("start", body.binds, NoResponse, ""))
            /\ UNCHANGED <<autoScanCancel, scans>>
       ELSE IF ~body.binds
       THEN /\ areqs' = Append(areqs, Logged("start", FALSE, 400, "bind error"))
            /\ UNCHANGED <<autoScanCancel, scans>>
       ELSE IF autoScanCancel # 0
       THEN /\ areqs' = Append(areqs,
                           Logged("start", TRUE, 400, "auto-scan already running"))
            /\ UNCHANGED <<autoScanCancel, scans>>
       ELSE /\ scans' = Append(scans, [done |-> FALSE, pc |-> "go",
                                       IntervalSeconds |-> body.IntervalSeconds])
            /\ autoScanCancel' = Len(scans) + 1
            /\ areqs' = Append(areqs, Logged("start", TRUE, 200, "auto-scan started"))
    /\ UNCHANGED crashed
    /\ UNCHANGED nonAutoVars

\* POST /autoscan/stop
AutoScanStop ==
    /\ Len(areqs) < MaxAutoRequests
    /\ IF crashed
       THEN /\ areqs' = Append(areqs, Logged("stop", TRUE, NoResponse, ""))
            /\ UNCHANGED <<autoScanCancel, scans>>
       ELSE IF autoScanCancel = 0
       THEN /\ areqs' = Append(areqs, Logged("stop", TRUE, 400, "no auto-scan running"))
            /\ UNCHANGED <<autoScanCancel, scans>>
       ELSE /\ scans' = [scans EXCEPT ![autoScanCancel].done = TRUE]
            /\ autoScanCancel' = 0
            /\ areqs' = Append(areqs, Logged("stop", TRUE, 200, "auto-scan stopped"))
    /\ UNCHANGED crashed
    /\ UNCHANGED nonAutoVars

\* the goroutine starts: ticker := time.NewTicker(...)
ScanNewTicker(g) ==
    /\ ~crashed
    /\ g \in 1..Len(scans)
    /\ scans[g].pc = "go"
    /\ IF TickerPanics(scans[g].IntervalSeconds)
       THEN crashed' = TRUE /\ UNCHANGED scans
       ELSE scans' = [scans EXCEPT ![g].pc = "select"] /\ UNCHANGED crashed
    /\ UNCHANGED <<autoScanCancel, areqs>>
    /\ UNCHANGED nonAutoVars

\* the select takes case <-ticker.C: one scan of the tickers begins
ScanTick(g) ==
    /\ ~crashed
    /\ g \in 1..Len(scans)
    /\ scans[g].pc = "select"
    /\ scans' = [scans EXCEPT ![g].pc = "scan"]
    /\ UNCHANGED <<autoScanCancel, crashed, areqs>>
    /\ UNCHANGED nonAutoVars

\* that scan ends: back to the select
ScanLoop(g) ==
    /\ ~crashed
    /\ g \in 1..Len(scans)
    /\ scans[g].pc = "scan"
    /\ scans' = [scans EXCEPT ![g].pc = "select"]
    /\ UNCHANGED <<autoScanCancel, crashed, areqs>>
    /\ UNCHANGED nonAutoVars

\* the select takes case <-ctx2.Done(): the goroutine returns
ScanReturn(g) ==
    /\ ~crashed
    /\ g \in 1..Len(scans)
    /\ scans[g].pc = "select"
    /\ scans[g].done
    /\ scans' = [scans EXCEPT ![g].pc = "returned"]
    /\ UNCHANGED <<autoScanCancel, crashed, areqs>>
    /\ UNCHANGED nonAutoVars

AutoNext ==
    \/ \E body \in AutoScanBodies : AutoScanStart(body)
    \/ AutoScanStop
    \/ \E g \in 1..MaxAutoRequests :
          ScanNewTicker(g) \/ ScanTick(g) \/ ScanLoop(g) \/ ScanReturn(g)

----------------------------------------------------------------------------
(* The /scan handler.  Prices and volumes are integers, thresholds and      *)
(* indicators exact fractions.  The broker holds, per request, one series   *)
(* of minute closes: GetCandles for a window of w minutes answers its last  *)
(* w closes, or fails.  The standard deviation is compared by its square.   *)

\* /scan requests in a session
MaxScans == 3

ScanPairs == {"XBTZAR", "ETHZAR"}

\* the request body: pairs (one), min_volume, entry_threshold
SweepRequests ==
    [Pair : ScanPairs, MinVolume : {0, 100}, EntryThreshold : {RatInt(0), Rat(1, 20)}]

\* the stored configuration with every filter and confirmation switched off
ScanPlainConfig ==
    [RSIPeriod |-> 0, RSIOverBought |-> 70, ShortWindow |-> 0, LongWindow |-> 0,
     MACDFastPeriod |-> 0, MACDSlowPeriod |-> 0, MACDSignalPeriod |-> 0,
     BBPeriod |-> 0, BBMultiplier |-> 1, StakeSize |-> 0, VWAPOrderbookDepthLevels |-> 0]

\* the stored configurations: none, one or all of the filters switched on
ScanConfigs ==
    LET rsiOn(c) == [c EXCEPT !.RSIPeriod = 2]
        maOn(c) == [c EXCEPT !.ShortWindow = 1, !.LongWindow = 2]
        macdOn(c) == [c EXCEPT !.MACDFastPeriod = 1, !.MACDSlowPeriod = 2,
                               !.MACDSignalPeriod = 2]
        bbOn(c) == [c EXCEPT !.BBPeriod = 2]
        stakeOn(c) == [c EXCEPT !.StakeSize = 5]
    IN  {ScanPlainConfig, rsiOn(ScanPlainConfig), maOn(ScanPlainConfig),
         macdOn(ScanPlainConfig), bbOn(ScanPlainConfig), stakeOn(ScanPlainConfig),
         rsiOn(maOn(macdOn(bbOn(stakeOn(ScanPlainConfig)))))}

\* the ticker GetTickers answers for the pair: bid, ask, 24h volume
ScanTickers == [Bid : {100}, Ask : {100, 110}, Volume : {50}]

\* the minute closes the broker holds
ScanSeries == {<<100>>, <<100, 95, 110>>, <<110, 105, 100>>}

\* the bid volumes of the order book, best first, or no order book
ScanBooks == {<<>>, <<1, 1>>, <<10>>}

\* what fails in a request: nothing, the binding, LoadConfig, GetTickers,
\* GetCandles or GetOrderBook
ScanFailures == {"none", "bind", "load", "tickers", "candles", "book"}

\* what the collaborators answer during one request
ScanEnvs ==
    [fail : {"none"}, series : ScanSeries, book : ScanBooks]
        \cup [fail : ScanFailures \ {"none"}, series : {<<100, 95, 110>>}, book : {<<10>>}]

\* the last w entries of a series
LastCloses(series, w) ==
    IF Len(series) <= w THEN series ELSE SubSeq(series, Len(series) - w + 1, Len(series))

\* computeRSI
ComputeRSI(prices, period) ==
    IF Len(prices) < period + 1 THEN RatInt(50)
    ELSE LET deltas == [i \in 1..(Len(prices) - 1) |-> prices[i + 1] - prices[i]]
             sums == RsiSums(deltas)
         IN  IF sums.lossSum = 0 THEN RatInt(100)
             ELSE RsiIndex(RatInt(sums.gainSum), RatInt(sums.lossSum))

\* the square of computeStdDev
ComputeVariance(vals) ==
    LET n == Len(vals)
        mean == Rat(SumSeq(vals), n)
    IN  IF n = 0 THEN RatInt(0)
        ELSE FDiv(RatSumSeq([i \in 1..n |->
                      RatMul(RatSub(RatInt(vals[i]), mean), RatSub(RatInt(vals[i]), mean))]),
                  RatInt(n))

\* computeEMA over a series of fractions
RECURSIVE ComputeEMA(_, _)
ComputeEMA(prices, period) ==
    LET k == Rat(2, period + 1)
        n == Len(prices)
    IN  IF n = 1 THEN <<prices[1]>>
        ELSE LET ema == ComputeEMA(SubSeq(prices, 1, n - 1), period)
             IN  Append(ema, RatAdd(RatMul(prices[n], k),
                                    RatMul(ema[n - 1], RatSub(RatInt(1), k))))

\* computeMACD: the histogram
ComputeMACDHist(prices, fastPeriod, slowPeriod, signalPeriod) ==
    LET p == [i \in 1..Len(prices) |-> RatInt(prices[i])]
        emaFast == ComputeEMA(p, fastPeriod)
        emaSlow == ComputeEMA(p, slowPeriod)
        macd == [i \in 1..Len(p) |-> RatSub(emaFast[i], emaSlow[i])]
        signal == ComputeEMA(macd, signalPeriod)
    IN  [i \in 1..Len(p) |-> RatSub(macd[i], signal[i])]

\* the volatility filter drops the ticker: ask - bid < sd * cfg.BBMultiplier
ScanTooCalm(t, cfg, env) ==
    /\ cfg.BBPeriod > 1 /\ cfg.BBMultiplier > 0
    /\ env.fail # "candles"
    /\ Len(LastCloses(env.series, cfg.BBPeriod + 1)) >= cfg.BBPeriod + 1
    /\ LET spread == t.Ask - t.Bid
           var == ComputeVariance(LastCloses(env.series, cfg.BBPeriod + 1))
       IN  \/ spread < 0
           \/ FLess(RatInt(spread * spread),
                    RatMul(var, RatInt(cfg.BBMultiplier * cfg.BBMultiplier)))

\* the depth filter drops the ticker: the top bid levels hold less than the stake
ScanTooShallow(t, cfg, env) ==
    /\ env.fail # "book"
    /\ LET levels == IF cfg.VWAPOrderbookDepthLevels <= 0 THEN 5
                     ELSE cfg.VWAPOrderbookDepthLevels
           totalDepth == SumSeq(IF Len(env.book) <= levels THEN env.book
                         ELSE SubSeq(env.book, 1, levels))
       IN  cfg.StakeSize > 0 /\ totalDepth < cfg.StakeSize

\* hit := req.EntryThreshold > 0 && ask > bid*(1+req.EntryThreshold)
ScanHit(req, bid, ask) ==
    /\ FLess(RatInt(0), req.EntryThreshold)
    /\ FLess(RatMul(RatInt(bid), RatAdd(RatInt(1), req.EntryThreshold)), RatInt(ask))

\* the RSI confirmation
ScanRsiOK(cfg, env) ==
    ~ /\ cfg.RSIPeriod > 0
      /\ env.fail # "candles"
      /\ Len(LastCloses(env.series, cfg.RSIPeriod + 1)) > cfg.RSIPeriod
      /\ FLess(RatInt(cfg.RSIOverBought),
               ComputeRSI(LastCloses(env.series, cfg.RSIPeriod + 1), cfg.RSIPeriod))

\* the moving-average filter holds the buy back: smaShort <= smaLong
ScanMaHolds(cfg, env) ==
    /\ cfg.ShortWindow > 0 /\ cfg.LongWindow > 0
    /\ env.fail # "candles"
    /\ LET closesMA == LastCloses(env.series, cfg.LongWindow + 1)
       IN  /\ Len(closesMA) >= cfg.LongWindow
           /\ ~FLess(Rat(SumSeq(LastCloses(closesMA, cfg.LongWindow)), cfg.LongWindow),
                     Rat(SumSeq(LastCloses(closesMA, cfg.ShortWindow)), cfg.ShortWindow))

\* the MACD filter holds the buy back: the last histogram value is <= 0
ScanMacdHolds(cfg, env) ==
    /\ cfg.MACDFastPeriod > 0 /\ cfg.MACDSlowPeriod > 0 /\ cfg.MACDSignalPeriod > 0
    /\ env.fail # "candles"
    /\ LET levels == IF cfg.MACDSignalPeriod > cfg.MACDSlowPeriod
                     THEN cfg.MACDSignalPeriod ELSE cfg.MACDSlowPeriod
           closesM == LastCloses(env.series, levels + 1)
       IN  /\ Len(closesM) >= levels + 1
           /\ LET hist == ComputeMACDHist(closesM, cfg.MACDFastPeriod,
                                          cfg.MACDSlowPeriod, cfg.MACDSignalPeriod)
              IN  hist[Len(hist)].num <= 0

\* if scanConsecCount[t.Pair] >= 2
ScanConfirmed(count) == count >= 2

\* the body of the loop over the tickers, for ticker t of pair: whether the
\* ticker is dropped, the new count of consecutive hits and the signal
ScanTicker(req, cfg, env, t, count) ==
    IF \/ (req.MinVolume > 0 /\ t.Volume < req.MinVolume)
       \/ ScanTooCalm(t, cfg, env)
       \/ ScanTooShallow(t, cfg, env)
    THEN [dropped |-> TRUE, count |-> count, sig |-> "hold"]
    ELSE LET c2 == IF ScanHit(req, t.Bid, t.Ask) THEN count + 1 ELSE 0
         IN  [dropped |-> FALSE, count |-> c2,
              sig |-> IF /\ ScanConfirmed(c2)
                         /\ ScanRsiOK(cfg, env)
                         /\ ~ScanMaHolds(cfg, env)
                         /\ ~ScanMacdHolds(cfg, env)
                      THEN "buy" ELSE "hold"]

NoScanResponse ==
    [status |-> 0, req |-> [Pair |-> "", MinVolume |-> 0, EntryThreshold |-> RatInt(0)],
     first |-> FALSE, results |-> <<>>]

ScanInit ==
    /\ scancfg \in ScanConfigs
    /\ scanConsecCount = [p \in ScanPairs |-> 0]
    /\ scanned = {}
    /\ scancalls = 0
    /\ scanresp = NoScanResponse

\* the scan variables of a session without /scan requests
ScanUnused ==
    /\ scancfg = ScanPlainConfig
    /\ scanConsecCount = [p \in ScanPairs |-> 0]
    /\ scanned = {}
    /\ scancalls = 0
    /\ scanresp = NoScanResponse

\* POST /scan, with what the collaborators answer during the request
ScanRequest(req, t, env) ==
    /\ scancalls < MaxScans
    /\ scancalls' = scancalls + 1
    /\ IF env.fail \in {"bind", "load", "tickers"}
       THEN /\ scanresp' = [status |-> IF env.fail = "bind" THEN 400 ELSE 500, req |-> req,
                            first |-> FALSE, results |-> <<>>]
            /\ UNCHANGED <<scanConsecCount, scanned>>
       ELSE LET r == ScanTicker(req, scancfg, env, t, scanConsecCount[req.Pair])
            IN  /\ scanConsecCount' = [scanConsecCount EXCEPT ![req.Pair] = r.count]
                /\ scanned' = scanned \cup {req.Pair}
                /\ scanresp' =
                      [status |-> 200, req |-> req, first |-> req.Pair \notin scanned,
                       results |-> IF r.dropped THEN <<>>
                                   ELSE <<[Pair |-> req.Pair, Bid |-> t.Bid, Ask |-> t.Ask,
                                           Signal |-> r.sig]>>]
    /\ UNCHANGED scancfg
    /\ UNCHANGED nonScanVars

ScanNext ==
    \E req \in SweepRequests, t \in ScanTickers,
       env \in ScanEnvs :
        ScanRequest(req, t, env)

----------------------------------------------------------------------------
(* The live executor shared by the goroutines of the server.  Execute runs  *)
(* in the goroutine of each /execute request and in the auto-scan           *)
(* goroutine, on one LunoExecutor and without a lock; its steps are the     *)
(* read of e.position, the call of the broker and the write of e.position.  *)
(* A read of e.position that races with a write may also return the value   *)
(* the write replaced.                                                      *)

\* calls of Execute in a session
MaxLiveCalls == 3

\* the goroutine of /autoscan/start
ScanGoroutine == "autoscan"

\* the goroutines of two /execute requests
ExecuteGoroutines == {"execute1", "execute2"}

LiveGoroutines == {ScanGoroutine} \cup ExecuteGoroutines

LivePairs == {"XBTZAR", "ETHZAR"}

\* bot.Config as the callers build it: the pair is the ticker's pair in the
\* auto-scan loop and the stored pair in /execute
LiveConfigs == [Pair : LivePairs, StakeSize : {1}, PositionLimit : {1}]

\* the quote of the callers: Execute reads its mid-price only
LiveQuotes == {[Bid |-> 90, Ask |-> 110]}

NoLiveCall ==
    [pc |-> "idle", sig |-> SignalNone, price |-> 0, volume |-> 0,
     cfg |-> [Pair |-> "", StakeSize |-> 0, PositionLimit |-> 0], stale |-> {}]

NoLiveReturn == [sig |-> SignalNone, pair |-> "", err |-> Nil, outcome |-> "", holder |-> ""]

LiveInit ==
    /\ liveExec = NewLunoExecutor
    /\ liveOrders = <<>>
    /\ liveCalls = [g \in LiveGoroutines |-> NoLiveCall]
    /\ liveRet = [g \in LiveGoroutines |-> NoLiveReturn]
    /\ liveHist = [calls |-> 0, entries |-> 0, sells |-> 0, holder |-> ""]

\* the live variables of a session without calls of the shared executor
LiveUnused == LiveInit

\* the values a read of e.position by goroutine g can return
LivePositionRead(g) == {liveExec.position} \cup liveCalls[g].stale

\* Execute returns in goroutine g
LiveReturn(g, err, outcome) ==
    /\ liveRet' = [liveRet EXCEPT ![g] =
                      [sig |-> liveCalls[g].sig, pair |-> liveCalls[g].cfg.Pair, err |-> err,
                       outcome |-> outcome, holder |-> liveHist.holder]]
    /\ liveCalls' = [liveCalls EXCEPT ![g] = NoLiveCall]

\* a goroutine enters Execute
LiveEnter(g, sig, md, cfg) ==
    /\ liveCalls[g].pc = "idle"
    /\ liveHist.calls < MaxLiveCalls
    /\ liveCalls' = [liveCalls EXCEPT ![g] =
                        [pc |-> "switch", sig |-> sig, price |-> Mid(md), volume |-> 0,
                         cfg |-> cfg, stale |-> {}]]
    /\ liveHist' = [liveHist EXCEPT !.calls = @ + 1,
                                    !.sells = IF sig = SignalSell THEN @ + 1 ELSE @]
    /\ UNCHANGED <<liveExec, liveOrders, liveRet>>
    /\ UNCHANGED nonLiveVars

\* the auto-scan goroutine executes the signal of a ticker
ScanExecute(sig, md, cfg) ==
    /\ sig # SignalNone
    /\ LiveEnter(ScanGoroutine, sig, md, cfg)

\* the /execute handler of request g has loaded the config and the order
\* book, asked the strategy and calls Execute
ExecuteRequest(g, sig, md, cfg) ==
    /\ g \in ExecuteGoroutines
    /\ LiveEnter(g, sig, md, cfg)

\* case SignalBuy: if e.position != 0 { return nil }
LiveBuyIgnored(position) == position # 0

\* the switch of Execute in goroutine g: the checks before the order
LiveSwitch(g) ==
    /\ liveCalls[g].pc = "switch"
    /\ \E position \in LivePositionRead(g), volume \in LivePositionRead(g) :
          LET c == liveCalls[g]
          IN  CASE c.sig = SignalBuy ->
                     IF LiveBuyIgnored(position)
                     THEN LiveReturn(g, Nil, "ignored")
                     ELSE IF c.cfg.StakeSize > c.cfg.PositionLimit
                          THEN LiveReturn(g, ErrLimit, "refused")
                          ELSE /\ liveCalls' = [liveCalls EXCEPT ![g].pc = "post",
                                                                 ![g].volume = c.cfg.StakeSize]
                               /\ UNCHANGED liveRet
                [] c.sig = SignalSell ->
                     IF position = 0
                     THEN LiveReturn(g, Nil, "ignored")
                     ELSE /\ liveCalls' = [liveCalls EXCEPT ![g].pc = "post",
                                                            ![g].volume = volume]
                          /\ UNCHANGED liveRet
                [] OTHER -> LiveReturn(g, Nil, "none")
    /\ UNCHANGED <<liveExec, liveOrders, liveHist>>
    /\ UNCHANGED nonLiveVars

\* e.client.PostLimitOrder in goroutine g; brokerOk is the broker's answer
LivePost(g, brokerOk) ==
    /\ liveCalls[g].pc = "post"
    /\ LET c == liveCalls[g]
           req == LimitOrderRequest(c.cfg.Pair, IF c.sig = SignalBuy THEN "BID" ELSE "ASK",
                                    c.price, c.volume, Len(liveOrders) + 1)
       IN  liveOrders' = Append(liveOrders, [req |-> req, ok |-> brokerOk])
    /\ IF brokerOk
       THEN /\ liveCalls' = [liveCalls EXCEPT ![g].pc = "store"]
            /\ UNCHANGED liveRet
       ELSE LiveReturn(g, ErrBroker, "failed")
    /\ UNCHANGED <<liveExec, liveHist>>
    /\ UNCHANGED nonLiveVars

\* the writes after the order in goroutine g: the calls in flight in other
\* goroutines race with the write of e.position
LiveStore(g) ==
    /\ liveCalls[g].pc = "store"
    /\ LET c == liveCalls[g]
           old == liveExec.position
           seen == [h \in LiveGoroutines |->
                      IF h # g /\ liveCalls[h].pc # "idle"
                      THEN [liveCalls[h] EXCEPT !.stale = @ \cup {old}]
                      ELSE liveCalls[h]]
       IN  /\ liveExec' = IF c.sig = SignalBuy
                          THEN [position |-> c.cfg.StakeSize, entryPrice |-> c.price]
                          ELSE [liveExec EXCEPT !.position = 0]
           /\ liveHist' = IF c.sig = SignalBuy
                          THEN [liveHist EXCEPT !.entries = @ + 1, !.holder = c.cfg.Pair]
                          ELSE [liveHist EXCEPT !.holder = ""]
           /\ liveRet' = [liveRet EXCEPT ![g] =
                             [sig |-> c.sig, pair |-> c.cfg.Pair, err |-> Nil,
                              outcome |-> IF c.sig = SignalBuy THEN "opened" ELSE "closed",
                              holder |-> liveHist.holder]]
           /\ liveCalls' = [seen EXCEPT ![g] = NoLiveCall]
    /\ UNCHANGED liveOrders
    /\ UNCHANGED nonLiveVars

LiveNext ==
    \/ \E sig \in Signals, md \in LiveQuotes, cfg \in LiveConfigs : ScanExecute(sig, md, cfg)
    \/ \E g \in ExecuteGoroutines, sig \in Signals, md \in LiveQuotes, cfg \in LiveConfigs :
          ExecuteRequest(g, sig, md, cfg)
    \/ \E g \in LiveGoroutines : LiveSwitch(g)
    \/ \E g \in LiveGoroutines, brokerOk \in BOOLEAN : LivePost(g, brokerOk)
    \/ \E g \in LiveGoroutines : LiveStore(g)

----------------------------------------------------------------------------
(* The auto-scan goroutine with auto_execute set, over a TWAP or VWAP live  *)
(* executor.  The scan calls liveExec.Execute with context.Background(),    *)
(* which is never cancelled, and waits for its return; /autoscan/stop       *)
(* cancels the context of the goroutine.  A session spawns one goroutine    *)
(* and its scans run one Execute.                                           *)

\* the quote and the configs of the execution the scan starts
AutoQuotes == {q \in SliceQuotes : q.Bid = 90 /\ q.Ask = 110}

AutoConfigs == {c \in TwapConfigs : c.StakeSize = 1 /\ c.Cooldown = 0 /\ c.MaxDrawdown = 5}

\* the goroutine g is inside a scan of the tickers
Scanning(g) == ~crashed /\ g \in 1..Len(scans) /\ scans[g].pc = "scan"

\* that goroutine is inside liveExec.Execute
Executing == spc \in {"call", "wait"}

\* POST /autoscan/start of the session's only goroutine
AutoExecuteStart(body) ==
    /\ scans = <<>>
    /\ AutoScanStart(body)

\* the scan reaches liveExec.Execute(context.Background(), ...) on a TWAP executor
AutoExecuteTwap(g, sig, md, cfg) ==
    /\ Scanning(g)
    /\ sig # SignalNone
    /\ TwapExecuteStart(sig, md, cfg)

\* the same on a VWAP executor
AutoExecuteVwap(g, sig, md, cfg) ==
    /\ Scanning(g)
    /\ sig # SignalNone
    /\ VwapExecuteStart(sig, md, cfg, NoCandles, NoBook, TRUE)

\* the scan ends once Execute has returned
AutoScanLoop(g) ==
    /\ ~Executing
    /\ ScanLoop(g)

AutoExecuteNext ==
    \/ \E body \in AutoScanBodies : AutoExecuteStart(body)
    \/ AutoScanStop
    \/ \E g \in 1..MaxAutoRequests : ScanNewTicker(g)
    \/ \E g \in 1..MaxAutoRequests : ScanTick(g)
    \/ \E g \in 1..MaxAutoRequests : AutoScanLoop(g)
    \/ \E g \in 1..MaxAutoRequests : ScanReturn(g)
    \/ \E g \in 1..MaxAutoRequests, sig \in Signals, md \in AutoQuotes, cfg \in AutoConfigs :
          AutoExecuteTwap(g, sig, md, cfg)
    \/ \E g \in 1..MaxAutoRequests, sig \in Signals, md \in AutoQuotes, cfg \in AutoConfigs :
          AutoExecuteVwap(g, sig, md, cfg)
    \/ \E res \in {Nil} \cup InnerErrors, pick \in {"ctx", "timer"} : TwapSlice(res, pick)
    \/ \E res \in {Nil} \cup InnerErrors, pick \in {"ctx", "timer"} : VwapSlice(res, TRUE, pick)
    \/ SliceTick

----------------------------------------------------------------------------
(* VWAP executions in orderbook mode, with the depth the config asks for *)

\* configs of the orderbook mode: cfg.VWAPOrderbookDepthLevels is 1 or 2
DepthConfigs ==
    [Pair : {"XBTZAR"}, StakeSize : {1}, PositionLimit : {MaxStake}, Cooldown : {0},
     MaxDrawdown : {5}, VWAPSource : {"orderbook"}, VWAPHybridWeight : {Rat(0, 1)},
     VWAPOrderbookDepthLevels : {1, 2}]

\* VWAPExecutor.Execute in orderbook mode, up to the loop
DepthExecuteStart(sig, md, cfg, book, saveOk) ==
    /\ sig # SignalNone
    /\ VwapExecuteStart(sig, md, cfg, NoCandles, book, saveOk)

DepthNext ==
    \/ \E sig \in Signals, md \in SliceQuotes, cfg \in DepthConfigs,
          book \in BookResponses, saveOk \in BOOLEAN :
           DepthExecuteStart(sig, md, cfg, book, saveOk)
    \/ \E res \in {Nil} \cup InnerErrors, saveOk \in BOOLEAN, pick \in {"ctx", "timer"} :
           VwapSlice(res, saveOk, pick)
    \/ SliceTick

----------------------------------------------------------------------------
(* A paper-trading session on one SimulatedExecutor, with a ledger.  The
   caller's clock only moves forward, and the ledger records what the
   executor itself does not keep: when the last trade was executed and how
   many Sell calls booked the profit of the entry that is open. *)

MaxLedgerCalls == 4

MaxLedgerTime == 4

LedgerQuotes ==
    {[Bid |-> ba[1], Ask |-> ba[2], Timestamp |-> t] :
        ba \in BidAsks, t \in 1..MaxLedgerTime}

LedgerConfigs == {c \in Configs : c.StakeSize > 0}

NoLedger == [now |-> 0, lastTrade |-> 0, prevTrade |-> 0, booked |-> 0]

LedgerInit ==
    /\ ExecInit
    /\ target = "sim"
    /\ ledger = NoLedger

LedgerUnused == ledger = NoLedger

\* The Buy branch was entered on a flat executor and set Position.
Opened(e, r) == e.Position = 0 /\ r.e.Position # 0

\* The Sell branch went past its position test and added the profit of the
\* open entry to TotalPnL.
Booked(e, sig, md, cfg) ==
    ~InCooldown(e, md, cfg) /\ sig = SignalSell /\ e.Position # 0

LedgerExecute(sig, md, cfg) ==
    /\ Idle
    /\ ncalls < MaxLedgerCalls
    /\ md.Timestamp >= ledger.now
    /\ LET r == SimExecute(sim, sig, md, cfg)
           traded == Opened(sim, r) \/ Booked(sim, sig, md, cfg)
       IN  /\ sim' = r.e
           /\ call' = [op |-> "Execute", sig |-> sig, md |-> md, cfg |-> cfg, err |-> r.err]
           /\ ledger' = [now |-> md.Timestamp,
                         lastTrade |-> IF traded THEN md.Timestamp ELSE ledger.lastTrade,
                         prevTrade |-> ledger.lastTrade,
                         booked |-> IF Opened(sim, r) THEN 0
                                    ELSE IF Booked(sim, sig, md, cfg) THEN ledger.booked + 1
                                    ELSE ledger.booked]
    /\ pre' = Snapshot
    /\ ncalls' = ncalls + 1
    /\ UNCHANGED <<target, luno, posted>>
    /\ UNCHANGED nonLedgerVars

LedgerCancelAll ==
    /\ Idle
    /\ ncalls < MaxLedgerCalls
    /\ LET r == SimCancelAll(sim)
       IN  /\ sim' = r.e
           /\ call' = [NoCall EXCEPT !.op = "CancelAll", !.err = r.err]
    /\ ledger' = [ledger EXCEPT !.prevTrade = ledger.lastTrade]
    /\ pre' = Snapshot
    /\ ncalls' = ncalls + 1
    /\ UNCHANGED <<target, luno, posted>>
    /\ UNCHANGED nonLedgerVars

LedgerNext ==
    \/ \E sig \in Signals, md \in LedgerQuotes, cfg \in LedgerConfigs :
           LedgerExecute(sig, md, cfg)
    \/ LedgerCancelAll
    \/ CallReturn

----------------------------------------------------------------------------
(* Specifications *)

Init == ExecInit /\ SliceUnused /\ KellyUnused /\ ChainUnused /\ ComboUnused /\ SmaUnused
    /\ RsiUnused /\ ThrUnused /\ CtorUnused /\ BacktestUnused /\ GridUnused
    /\ AutoUnused /\ ScanUnused /\ LiveUnused /\ LedgerUnused

Next == ExecNext

\* a session of calls on one SimulatedExecutor or LunoExecutor
Spec == Init /\ [][Next]_vars

SliceSpecInit == SliceInit /\ ExecUnused /\ KellyUnused /\ ChainUnused /\ ComboUnused /\ SmaUnused
    /\ RsiUnused /\ ThrUnused /\ CtorUnused /\ BacktestUnused /\ GridUnused
    /\ AutoUnused /\ ScanUnused /\ LiveUnused /\ LedgerUnused

\* one Execute call on one TWAPExecutor or VWAPExecutor
SpecSlice == SliceSpecInit /\ [][SliceNext]_vars

KellySpecInit ==
    KellyInit /\ ExecUnused /\ SliceUnused /\ ChainUnused /\ ComboUnused /\ SmaUnused
    /\ RsiUnused /\ ThrUnused /\ CtorUnused /\ BacktestUnused /\ GridUnused
    /\ AutoUnused /\ ScanUnused /\ LiveUnused /\ LedgerUnused

\* one Size call on one KellySizer
SpecKelly == KellySpecInit /\ [][KellyNext]_vars

ChainSpecInit ==
    ChainInit /\ ExecUnused /\ SliceUnused /\ KellyUnused /\ ComboUnused /\ SmaUnused
    /\ RsiUnused /\ ThrUnused /\ CtorUnused /\ BacktestUnused /\ GridUnused
    /\ AutoUnused /\ ScanUnused /\ LiveUnused /\ LedgerUnused

\* a session of calls on one decorated SimulatedExecutor
SpecChain == ChainSpecInit /\ [][ChainNext]_vars

ComboSpecInit ==
    ComboInit /\ ExecUnused /\ SliceUnused /\ KellyUnused /\ ChainUnused /\ SmaUnused
    /\ RsiUnused /\ ThrUnused /\ CtorUnused /\ BacktestUnused /\ GridUnused
    /\ AutoUnused /\ ScanUnused /\ LiveUnused /\ LedgerUnused

\* one Next on one MultiTimeframeStrategy
SpecCombo == ComboSpecInit /\ [][ComboNext]_vars

SmaSpecInit ==
    SmaInit /\ ExecUnused /\ SliceUnused /\ KellyUnused /\ ChainUnused /\ ComboUnused
    /\ RsiUnused /\ ThrUnused /\ CtorUnused /\ BacktestUnused /\ GridUnused
    /\ AutoUnused /\ ScanUnused /\ LiveUnused /\ LedgerUnused

\* a session of Next calls on one SMAStrategy
SpecSMA == SmaSpecInit /\ [][SmaSpecNext]_vars

RsiSpecInit ==
    RsiInit /\ SliceUnused /\ ExecUnused /\ KellyUnused /\ ChainUnused
    /\ ComboUnused /\ SmaUnused /\ ThrUnused /\ CtorUnused /\ BacktestUnused
    /\ GridUnused /\ AutoUnused /\ ScanUnused /\ LiveUnused /\ LedgerUnused

\* a session of Next calls on one RSIStrategy
SpecRSI == RsiSpecInit /\ [][RsiSpecNext]_vars

ThrSpecInit ==
    ThrInit /\ SliceUnused /\ ExecUnused /\ KellyUnused /\ ChainUnused
    /\ ComboUnused /\ SmaUnused /\ RsiUnused /\ CtorUnused /\ BacktestUnused
    /\ GridUnused /\ AutoUnused /\ ScanUnused /\ LiveUnused /\ LedgerUnused

\* a session of Next calls on one ThresholdStrategy
SpecThreshold == ThrSpecInit /\ [][ThrSpecNext]_vars

CtorSpecInit ==
    CtorInit /\ SliceUnused /\ ExecUnused /\ KellyUnused /\ ChainUnused
    /\ ComboUnused /\ SmaUnused /\ RsiUnused /\ ThrUnused /\ BacktestUnused
    /\ GridUnused /\ AutoUnused /\ ScanUnused /\ LiveUnused /\ LedgerUnused

\* one construction of strategies, then Next calls on what was built
SpecCtor == CtorSpecInit /\ [][CtorSpecNext]_vars

BacktestSpecInit ==
    BacktestInit /\ SliceUnused /\ ExecUnused /\ KellyUnused /\ ChainUnused
    /\ ComboUnused /\ SmaUnused /\ RsiUnused /\ ThrUnused /\ CtorUnused
    /\ GridUnused /\ AutoUnused /\ ScanUnused /\ LiveUnused /\ LedgerUnused

\* one /backtest request
SpecBacktest == BacktestSpecInit /\ [][BacktestNext]_vars

GridSpecInit ==
    GridInit /\ SliceUnused /\ ExecUnused /\ KellyUnused /\ ChainUnused
    /\ ComboUnused /\ SmaUnused /\ RsiUnused /\ ThrUnused /\ CtorUnused
    /\ BacktestUnused /\ AutoUnused /\ ScanUnused /\ LiveUnused /\ LedgerUnused

\* one /thresholds request
SpecGrid == GridSpecInit /\ [][GridNext]_vars

AutoSpecInit ==
    AutoInit /\ SliceUnused /\ ExecUnused /\ KellyUnused /\ ChainUnused
    /\ ComboUnused /\ SmaUnused /\ RsiUnused /\ ThrUnused /\ CtorUnused
    /\ BacktestUnused /\ GridUnused /\ ScanUnused /\ LiveUnused /\ LedgerUnused

\* a session of /autoscan/start and /autoscan/stop requests
SpecAutoScan == AutoSpecInit /\ [][AutoNext]_vars

ScanSpecInit ==
    ScanInit /\ SliceUnused /\ ExecUnused /\ KellyUnused /\ ChainUnused
    /\ ComboUnused /\ SmaUnused /\ RsiUnused /\ ThrUnused /\ CtorUnused
    /\ BacktestUnused /\ GridUnused /\ AutoUnused /\ LiveUnused /\ LedgerUnused

\* a session of /scan requests
SpecScan == ScanSpecInit /\ [][ScanNext]_vars

LiveSpecInit ==
    LiveInit /\ SliceUnused /\ ExecUnused /\ KellyUnused /\ ChainUnused
    /\ ComboUnused /\ SmaUnused /\ RsiUnused /\ ThrUnused /\ CtorUnused
    /\ BacktestUnused /\ GridUnused /\ AutoUnused /\ ScanUnused /\ LedgerUnused

\* goroutines calling the shared live executor
SpecLive == LiveSpecInit /\ [][LiveNext]_vars

AutoExecuteSpecInit ==
    AutoInit /\ SliceInit /\ ~ctor.store /\ ExecUnused /\ KellyUnused /\ ChainUnused
    /\ ComboUnused /\ SmaUnused /\ RsiUnused /\ ThrUnused /\ CtorUnused
    /\ BacktestUnused /\ GridUnused /\ ScanUnused /\ LiveUnused /\ LedgerUnused

\* an auto-scan session whose scans execute over a slicing executor
SpecAutoExecute == AutoExecuteSpecInit /\ [][AutoExecuteNext]_vars

DepthSpecInit ==
    SliceInit /\ ctor.kind = "vwap" /\ ExecUnused /\ KellyUnused /\ ChainUnused
    /\ ComboUnused /\ SmaUnused /\ RsiUnused /\ ThrUnused /\ CtorUnused
    /\ BacktestUnused /\ GridUnused /\ AutoUnused /\ ScanUnused /\ LiveUnused
    /\ LedgerUnused

\* one VWAP Execute in orderbook mode
SpecDepth == DepthSpecInit /\ [][DepthNext]_vars

LedgerSpecInit ==
    LedgerInit /\ SliceUnused /\ KellyUnused /\ ChainUnused
    /\ ComboUnused /\ SmaUnused /\ RsiUnused /\ ThrUnused /\ CtorUnused
    /\ BacktestUnused /\ GridUnused /\ AutoUnused /\ ScanUnused
    /\ LiveUnused

\* A paper-trading session on one SimulatedExecutor, with a ledger of the
\* trades it executed.
SpecLedger == LedgerSpecInit /\ [][LedgerNext]_vars

----------------------------------------------------------------------------
(* Properties of the executors, over the last call, the state before it
   (pre) and the state after it *)

SimCalled(op) == target = "sim" /\ call.op = op

LunoCalled(op) == target = "luno" /\ call.op = op

\* The last call's quote fell inside the cooldown window of the ledger it met.
CallInCooldown ==
    /\ pre.sim.LastTradeTime # 0
    /\ call.md.Timestamp - pre.sim.LastTradeTime < call.cfg.Cooldown

CurPosition == IF target = "sim" THEN sim.Position ELSE luno.position

CurEntry == IF target = "sim" THEN sim.EntryPrice ELSE luno.entryPrice

PrePosition == IF target = "sim" THEN pre.sim.Position ELSE pre.luno.position

PreEntry == IF target = "sim" THEN pre.sim.EntryPrice ELSE pre.luno.entryPrice

\* C1: on a SimulatedExecutor or a LunoExecutor the position is never
\* negative and is at most one open lot: a Buy that meets an open position
\* (position # 0) leaves position and entry price as they were, a Buy that
\* meets a flat ledger leaves it flat or opens exactly its own stake, and
\* every other call leaves the position as it was or flat.
C1_AtMostOneLot ==
    /\ CurPosition >= 0
    /\ (call.op = "Execute" /\ call.sig = SignalBuy /\ PrePosition # 0)
          => (CurPosition = PrePosition /\ CurEntry = PreEntry)
    /\ (call.op = "Execute" /\ call.sig = SignalBuy /\ PrePosition = 0)
          => CurPosition \in {0, call.cfg.StakeSize}
    /\ ~(call.op = "Execute" /\ call.sig = SignalBuy)
          => CurPosition \in {0, PrePosition}

\* C1 witness: a Buy of another stake, within the limit and outside the
\* cooldown, met an open position and left it alone.
C1_Witness ==
    /\ call.op = "Execute" /\ call.sig = SignalBuy
    /\ PrePosition # 0
    /\ call.cfg.StakeSize # PrePosition
    /\ call.cfg.StakeSize <= call.cfg.PositionLimit
    /\ (target = "sim" => ~CallInCooldown)
    /\ Mid(call.md) # PreEntry
    /\ CurPosition = PrePosition

\* C2 (as claimed): a Sell that acts on an open position of a
\* SimulatedExecutor and leaves a drawdown PeakPnL - TotalPnL above
\* cfg.MaxDrawdown returns the drawdown error, sets MaxDrawdownExceeded and
\* leaves the position flat.
C2_DrawdownSellFlattens ==
    (/\ SimCalled("Execute") /\ call.sig = SignalSell
     /\ pre.sim.Position # 0
     /\ ~CallInCooldown
     /\ sim.PeakPnL - sim.TotalPnL > call.cfg.MaxDrawdown)
    => (/\ call.err = ErrDrawdown
        /\ sim.MaxDrawdownExceeded
        /\ sim.Position = 0)

\* C3: on a SimulatedExecutor PeakPnL never decreases from one state to the
\* next, and MaxDrawdownExceeded, once true, stays true.
C3_PeakMonotoneFlagSticky ==
    [][/\ sim'.PeakPnL >= sim.PeakPnL
       /\ (sim.MaxDrawdownExceeded => sim'.MaxDrawdownExceeded)]_vars

\* C3 witness: a call on a ledger whose flag was already set raised the peak.
C3_Witness ==
    /\ SimCalled("Execute")
    /\ pre.sim.MaxDrawdownExceeded /\ sim.MaxDrawdownExceeded
    /\ sim.PeakPnL > pre.sim.PeakPnL

\* C4 (as claimed): on a SimulatedExecutor a Buy that meets an open position
\* and a Sell that meets a flat ledger return success and change no field of
\* the ledger, LastTradeTime included.
C4_NoOpSignalsChangeNothing ==
    (/\ SimCalled("Execute")
     /\ \/ call.sig = SignalBuy /\ pre.sim.Position # 0
        \/ call.sig = SignalSell /\ pre.sim.Position = 0)
    => (call.err = Nil /\ sim = pre.sim)

\* C5 (as claimed): an Execute inside the cooldown window returns success,
\* leaves Position, EntryPrice, TotalPnL and PeakPnL alone and sets
\* LastTradeTime to the quote's timestamp.
C5_CooldownStampsTime ==
    (SimCalled("Execute") /\ CallInCooldown)
    => (/\ call.err = Nil
        /\ sim.Position = pre.sim.Position
        /\ sim.EntryPrice = pre.sim.EntryPrice
        /\ sim.TotalPnL = pre.sim.TotalPnL
        /\ sim.PeakPnL = pre.sim.PeakPnL
        /\ sim.LastTradeTime = call.md.Timestamp)

\* C5 (amended): an Execute inside the cooldown window returns success and
\* changes no field of the ledger whatever the signal: LastTradeTime keeps
\* its value too.
C5_CooldownChangesNothing ==
    (SimCalled("Execute") /\ CallInCooldown)
    => (call.err = Nil /\ sim = pre.sim)

\* C5 witness: a Buy within the limit met a flat ledger inside the cooldown
\* window, at another timestamp than the last trade's, and nothing changed.
C5_Witness ==
    /\ SimCalled("Execute") /\ CallInCooldown
    /\ call.sig = SignalBuy
    /\ pre.sim.Position = 0
    /\ call.cfg.StakeSize > 0
    /\ call.cfg.StakeSize <= call.cfg.PositionLimit
    /\ call.md.Timestamp # pre.sim.LastTradeTime
    /\ sim = pre.sim

\* C6 (as claimed): on a flat SimulatedExecutor a Buy (outside the cooldown
\* window) with StakeSize > PositionLimit returns an error and leaves every
\* field of the ledger, LastTradeTime included, as it was.
C6_LimitErrorChangesNothing ==
    (/\ SimCalled("Execute") /\ call.sig = SignalBuy
     /\ pre.sim.Position = 0
     /\ ~CallInCooldown
     /\ call.cfg.StakeSize > call.cfg.PositionLimit)
    => (call.err = ErrLimit /\ sim = pre.sim)

\* C7: on a flat LunoExecutor a Buy with StakeSize > PositionLimit returns
\* the limit error, the broker receives no PostLimitOrder request during the
\* call, and the position stays 0.
C7_LunoLimitBeforeBroker ==
    (/\ LunoCalled("Execute") /\ call.sig = SignalBuy
     /\ pre.luno.position = 0
     /\ call.cfg.StakeSize > call.cfg.PositionLimit)
    => (/\ call.err = ErrLimit
        /\ Len(posted) = pre.nposted
        /\ posted = SubSeq(posted, 1, pre.nposted)
        /\ luno.position = 0)

\* C7 witness: an over-limit Buy was refused on a flat LunoExecutor whose
\* broker had taken orders before.
C7_Witness ==
    /\ LunoCalled("Execute") /\ call.sig = SignalBuy
    /\ pre.luno.position = 0
    /\ call.cfg.StakeSize > call.cfg.PositionLimit
    /\ pre.nposted > 0
    /\ call.err = ErrLimit

\* The last call posted an order to the broker.
LunoPosted == Len(posted) > pre.nposted

\* C38: an Execute call on a LunoExecutor posts at most one order; when the
\* broker refuses the order the call returns the broker's error with position
\* and entryPrice as before the call; and the position changes only in a call
\* whose order the broker accepted.
C38_PositionFollowsBroker ==
    LunoCalled("Execute")
        => /\ Len(posted) <= pre.nposted + 1
           /\ (LunoPosted /\ ~posted[Len(posted)].ok)
                  => (call.err = ErrBroker /\ luno = pre.luno)
           /\ luno # pre.luno => (LunoPosted /\ posted[Len(posted)].ok)

\* C38 witness: the broker refused the Sell order of an open position, the
\* call returned the broker's error and the position is still open.
C38_Witness ==
    /\ LunoCalled("Execute") /\ call.sig = SignalSell
    /\ pre.luno.position # 0
    /\ Len(posted) = pre.nposted + 1
    /\ ~posted[Len(posted)].ok
    /\ call.err = ErrBroker
    /\ luno = pre.luno

----------------------------------------------------------------------------
(* Properties of the slicing executors, over the log of what one Execute
   call did *)

\* N = max(1, slices), from the constructor's argument
CtorSlices == IF ctor.slices > 1 THEN ctor.slices ELSE 1

AllSlicesSucceeded == \A j \in 1..Len(events) : events[j].kind = "inner" => events[j].err = Nil

\* N inner calls of cfg.StakeSize / N each, with a wait of the interval
\* between two of them and none after the last
C8_ExpectedEvents ==
    LET size == [num |-> sargs.cfg.StakeSize \div Gcd(sargs.cfg.StakeSize, CtorSlices),
                 den |-> CtorSlices \div Gcd(sargs.cfg.StakeSize, CtorSlices)]
        sliceCfg == [sargs.cfg EXCEPT !.StakeSize = size]
    IN  [j \in 1..(2 * CtorSlices - 1) |->
            IF j % 2 = 1
            THEN [kind |-> "inner", sig |-> sargs.sig, md |-> sargs.md,
                  cfg |-> sliceCfg, err |-> Nil]
            ELSE [kind |-> "wait", ticks |-> ctor.interval]]

\* C8: a TWAP Execute of a Buy or Sell whose inner calls all succeed and
\* whose context is never cancelled has, when it returns, called the inner
\* executor exactly N = max(1, slices) times, each time with the caller's
\* signal, quote and config except StakeSize = cfg.StakeSize / N, has waited
\* the interval between consecutive slices and not after the last, and
\* returns nil.
C8_TwapSlicesEvenly ==
    (/\ ctor.kind = "twap" /\ spc = "done"
     /\ sargs.sig # SignalNone
     /\ ctxErr = Nil
     /\ AllSlicesSucceeded)
    => (sret = Nil /\ events = C8_ExpectedEvents)

\* C8 witness: a TWAP Buy of three slices, a positive interval apart, has
\* returned nil.
C8_Witness ==
    /\ ctor.kind = "twap" /\ spc = "done"
    /\ sargs.sig = SignalBuy
    /\ ctxErr = Nil
    /\ AllSlicesSucceeded
    /\ ctor.slices = 3 /\ ctor.interval > 0
    /\ sargs.cfg.StakeSize = 2
    /\ Len(events) = 5
    /\ sret = Nil

\* C9: in a TWAP or VWAP execution, once the inner executor has returned an
\* error on a slice, that call is the last thing the execution did (no later
\* slice is run), and Execute has returned that same error.
C9_InnerErrorAborts ==
    \A j \in 1..Len(events) :
        (events[j].kind = "inner" /\ events[j].err # Nil)
        => (j = Len(events) /\ spc = "done" /\ sret = events[j].err)

\* C9 witness: a VWAP execution of three slices with a store whose second
\* inner call failed.
C9_Witness ==
    /\ ctor.kind = "vwap" /\ ctor.store /\ ctor.slices = 3
    /\ Len(InnerEvents) = 2
    /\ InnerEvents[2].err = ErrBroker
    /\ spc = "done" /\ sret = ErrBroker

\* C10: in a TWAP or VWAP execution, if the context is cancelled while the
\* executor is parked between slice k and slice k+1, the select takes the
\* cancellation: the wait ends there, short of the interval, no further
\* inner call is made, and Execute returns ctx.Err().
C10_CancelDuringWaitAborts ==
    cancelAt.pc = "wait"
    => (/\ spc \in {"ctxcase", "done"}
        /\ spc = "done" => sret = ctxErr
        /\ ctxErr \in CtxErrors
        /\ cancelAt.ninner = cancelAt.i + 1
        /\ Len(InnerEvents) = cancelAt.ninner
        /\ swaited = cancelAt.waited
        /\ swaited < slicer.Interval)

\* C10 witness: the context was cancelled part-way through the wait after
\* the second of three slices, and Execute has returned its error.
C10_Witness ==
    /\ cancelAt.pc = "wait"
    /\ cancelAt.i = 1 /\ cancelAt.waited >= 1
    /\ slicer.Slices = 3
    /\ spc = "done"
    /\ sret = "context deadline exceeded"

----------------------------------------------------------------------------
(* Properties of the VWAP executor: weights and persistence *)

RECURSIVE RatSum(_)
RatSum(q) == IF q = <<>> THEN [num |-> 0, den |-> 1] ELSE RatAdd(Head(q), RatSum(Tail(q)))

\* a VWAP Execute of a Buy or Sell has got past the switch on cfg.VWAPSource
WeightsComputed == slicer.kind = "vwap" /\ sargs.sig # SignalNone /\ spc # "idle"

PersistedSizes == [j \in 1..Len(store.slices) |-> store.slices[j].size]

\* C11: for every VWAP source (historical, orderbook, hybrid, any other
\* string), every slice count N >= 1 and every candle or order-book
\* response (also with fewer data points than slices), Execute computes N
\* weights that sum to 1; and when all N slices of an execution with a store
\* have completed, the sizes of the persisted Slice records sum to the
\* cfg.StakeSize recorded as the volume of the Trade.
C11_VwapWeightsSumToOne ==
    /\ WeightsComputed
       => (/\ Len(sloop.weights) = slicer.Slices
           /\ RatSum(sloop.weights) = [num |-> 1, den |-> 1])
    /\ (WeightsComputed /\ slicer.Store /\ spc = "done" /\ sret = Nil)
       => (/\ Len(store.trades) = 1
           /\ store.trades[1].volume = sargs.cfg.StakeSize
           /\ Len(store.slices) = slicer.Slices
           /\ RatSum(PersistedSizes) = [num |-> store.trades[1].volume, den |-> 1])

\* C11 witness: a historical-mode execution of three slices over two
\* candles (weights 0, 1/3 and 2/3) has persisted all three slices.
C11_Witness ==
    /\ WeightsComputed /\ slicer.Store /\ spc = "done" /\ sret = Nil
    /\ slicer.Slices = 3
    /\ sargs.cfg.VWAPSource = "historical"
    /\ events[1] = ClientEvent("getCandles", [err |-> FALSE, vols |-> <<1, 2>>])
    /\ sloop.weights = <<[num |-> 0, den |-> 1], [num |-> 1, den |-> 3], [num |-> 2, den |-> 3]>>
    /\ Len(store.slices) = 3

\* the number of inner calls among the first k entries of the log
InnerCount(k) == Cardinality({j \in 1..k : events[j].kind = "inner"})

SavesOf(what) == {j \in 1..Len(events) : events[j].kind = what /\ events[j].ok}

\* C12: in a VWAP execution with a store, the Trade record is saved before
\* any inner call (after a failed SaveTrade there is none); the Slice record
\* of index i is saved only right after the inner call for slice i returned
\* nil, hence before the inner call for slice i+1, which is made only once
\* slice i is saved; and a failed SaveSlice is the last thing the execution
\* does: Execute returns an error wrapping the store's.
C12_PersistenceOrder ==
    (slicer.kind = "vwap" /\ slicer.Store)
    => (/\ Len(store.trades) = Cardinality(SavesOf("saveTrade"))
        /\ Len(store.slices) = Cardinality(SavesOf("saveSlice"))
        /\ \A k \in 1..Len(events) :
            /\ events[k].kind = "inner"
               => (/\ \E j \in 1..(k - 1) : events[j] = SaveEvent("saveTrade", 0, TRUE)
                   /\ InnerCount(k - 1) > 0
                      => \E j \in 1..(k - 1) :
                            events[j] = SaveEvent("saveSlice", InnerCount(k - 1) - 1, TRUE))
            /\ events[k].kind = "saveTrade"
               => (/\ InnerCount(k) = 0
                   /\ ~events[k].ok
                      => (/\ k = Len(events) /\ spc = "done"
                          /\ sret = <<"save trade", ErrStore>>))
            /\ events[k].kind = "saveSlice"
               => (/\ k > 1
                   /\ events[k - 1].kind = "inner"
                   /\ events[k - 1].err = Nil
                   /\ events[k].index = InnerCount(k) - 1
                   /\ ~events[k].ok
                      => (/\ k = Len(events) /\ spc = "done"
                          /\ sret = <<"save slice", ErrStore>>)))

\* C12 witness: with a store and three slices, the trade and slice 0 were
\* saved, the save of slice 1 failed and Execute has returned.
C12_Witness ==
    /\ slicer.kind = "vwap" /\ slicer.Store /\ slicer.Slices = 3
    /\ spc = "done"
    /\ Len(InnerEvents) = 2
    /\ Len(store.trades) = 1 /\ Len(store.slices) = 1
    /\ events[Len(events)] = SaveEvent("saveSlice", 1, FALSE)

\* the response of the Client call what, if Execute made it
ResponsesTo(what) == {events[j].resp : j \in {k \in 1..Len(events) : events[k].kind = what}}

\* GetCandles returned an error or no candles
HistoricalUnavailable ==
    \E r \in ResponsesTo("getCandles") : r.err \/ Len(r.vols) = 0

\* GetOrderBook returned an error or no price levels on the signal's side
OrderbookUnavailable ==
    \E r \in ResponsesTo("getOrderBook") :
        r.err \/ Len(IF sargs.sig = SignalSell THEN r.Bids ELSE r.Asks) = 0

\* every source the configured mode consults was unavailable
SourceUnavailable ==
    CASE sargs.cfg.VWAPSource = "historical" -> HistoricalUnavailable
      [] sargs.cfg.VWAPSource = "orderbook" -> OrderbookUnavailable
      [] sargs.cfg.VWAPSource = "hybrid" -> HistoricalUnavailable /\ OrderbookUnavailable
      [] OTHER -> FALSE

----------------------------------------------------------------------------
(* Properties of the decorators, over the invocations the last call on the
   chain caused *)

\* the invocations of Execute on the executor at depth d, in order
ExecutesAt(d) == SelectSeq(dcall.log, LAMBDA x : x.depth = d /\ x.op = "Execute")

\* the invocations of CancelAll on the executor at depth d, in order
CancelsAt(d) == SelectSeq(dcall.log, LAMBDA x : x.depth = d /\ x.op = "CancelAll")

SizingDepths == {d \in 1..Len(dchain) : dchain[d].kind = "sizing"}

\* C14: every Execute on a SizingExecutor invokes the inner executor exactly
\* once, with the signal and quote it was given and a config equal to the
\* one it was given except that StakeSize is Sizer.Size(cfg.InitialEquity,
\* cfg); the config variable of the caller is unchanged when the call has
\* returned.
C14_SizingDelegatesOnce ==
    /\ \A d \in SizingDepths :
          /\ Len(ExecutesAt(d + 1)) = Len(ExecutesAt(d))
          /\ \A k \in 1..Len(ExecutesAt(d)) :
                LET in == ExecutesAt(d)[k]
                    out == ExecutesAt(d + 1)[k]
                    size == SizerSize(dchain[d].Sizer, RatInt(in.cfg.InitialEquity),
                                      [StakeSize |-> RatInt(in.cfg.StakeSize)])
                IN  /\ out.sig = in.sig
                    /\ out.md = in.md
                    /\ [num |-> out.cfg.StakeSize, den |-> 1] = size
                    /\ [out.cfg EXCEPT !.StakeSize = in.cfg.StakeSize] = in.cfg
    /\ dcall.op = "Execute" => dcall.cfgAfter = dcall.cfg

\* C14 witness: a Buy of twice the position limit through a SizingExecutor
\* with a Kelly sizer reached the SimulatedExecutor with the Kelly stake,
\* one lot, and was entered.
C14_Witness ==
    /\ dchain = <<NewSizingExecutor(NewKellySizer(Rat(3, 4), Rat(1, 1)))>>
    /\ dcall.op = "Execute" /\ dcall.sig = SignalBuy
    /\ dcall.cfg.StakeSize = 2 * ChainLot
    /\ dcall.cfg.InitialEquity = 2 * ChainLot
    /\ Len(ExecutesAt(2)) = 1
    /\ ExecutesAt(2)[1].cfg.StakeSize = ChainLot
    /\ dcall.err = Nil
    /\ dsim.Position = ChainLot

\* C15: for every win probability, win/loss ratio and equity and every
\* cfg.StakeSize >= 0, KellySizer.Size returns a number in [0,
\* cfg.StakeSize]: finite, not below 0 and not above the stake size; with
\* win probability 0.6, ratio 2, equity 1000 and stake size 100 it returns
\* 100.
C15_KellyWithinStake ==
    kout.done
    => (/\ kout.size.den > 0
        /\ kout.size.num >= 0
        /\ kout.size.num * kargs.cfg.StakeSize.den
               <= kargs.cfg.StakeSize.num * kout.size.den
        /\ (/\ ksizer.WinProb = [num |-> 3, den |-> 5]
            /\ ksizer.WinLoss = [num |-> 2, den |-> 1]
            /\ kargs.equity = [num |-> 1000, den |-> 1]
            /\ kargs.cfg.StakeSize = [num |-> 100, den |-> 1])
           => kout.size = [num |-> 100, den |-> 1])

LoggingDepths == {d \in 1..Len(dchain) : dchain[d].kind = "logging"}

\* the same arguments, the same returned error
SameCall(in, out) ==
    /\ out.op = in.op /\ out.sig = in.sig /\ out.md = in.md /\ out.cfg = in.cfg
    /\ out.err = in.err

\* C16: every Execute on a LoggingExecutor invokes the inner executor
\* exactly once with the signal, quote and config it was given and returns
\* what the inner call returned, nil or the same error; CancelAll likewise
\* invokes the inner CancelAll once and returns its result.  A call on a
\* chain headed by a LoggingExecutor hence leaves the ledger, and returns
\* the error, that the same call on the chain without it does.
C16_LoggingTransparent ==
    /\ \A d \in LoggingDepths :
          /\ Len(ExecutesAt(d + 1)) = Len(ExecutesAt(d))
          /\ Len(CancelsAt(d + 1)) = Len(CancelsAt(d))
          /\ \A k \in 1..Len(ExecutesAt(d)) : SameCall(ExecutesAt(d)[k], ExecutesAt(d + 1)[k])
          /\ \A k \in 1..Len(CancelsAt(d)) : SameCall(CancelsAt(d)[k], CancelsAt(d + 1)[k])
    /\ (dchain # <<>> /\ dchain[1].kind = "logging" /\ dcall.op = "Execute")
       => LET r == ChainExecute(2, dpre, dcall.sig, dcall.md, dcall.cfg)
          IN  dsim = r.e /\ dcall.err = r.err /\ Tail(dcall.log) = r.log
    /\ (dchain # <<>> /\ dchain[1].kind = "logging" /\ dcall.op = "CancelAll")
       => LET r == ChainCancelAll(2, dpre)
          IN  dsim = r.e /\ dcall.err = r.err /\ Tail(dcall.log) = r.log

\* C16 witness: a Buy over the position limit through a LoggingExecutor
\* wrapped around the SimulatedExecutor returned the ledger's error.
C16_Witness ==
    /\ dchain = <<NewLoggingExecutor>>
    /\ dcall.op = "Execute" /\ dcall.sig = SignalBuy
    /\ Len(ExecutesAt(2)) = 1
    /\ ExecutesAt(2)[1].err = ErrLimit
    /\ dcall.err = ErrLimit

\* C17: CancelAll on a SimulatedExecutor in any state, called on it directly
\* or through Sizing, TWAP, VWAP and Logging decorators, returns no error
\* and leaves the position flat and every other field of the ledger,
\* TotalPnL and PeakPnL among them, as it was; a CancelAll that follows
\* another CancelAll returns no error and changes nothing.
C17_CancelAllFlattensIdempotent ==
    dcall.op = "CancelAll"
    => (/\ dcall.err = Nil
        /\ Len(dcall.log) = Len(dchain) + 1
        /\ dsim.Position = 0
        /\ dsim.TotalPnL = dpre.TotalPnL
        /\ dsim.PeakPnL = dpre.PeakPnL
        /\ dsim = [dpre EXCEPT !.Position = 0]
        /\ dcall.cancels >= 1 => dsim = dpre)

\* C17 witness: a second CancelAll in a row through the three decorators
\* of main, on a ledger that held a position after a loss, before the
\* first.
C17_Witness ==
    /\ Len(dchain) = 3
    /\ dchain[2].kind = "vwap"
    /\ dcall.op = "CancelAll" /\ dcall.cancels = 1
    /\ dsim.MaxDrawdownExceeded
    /\ dsim.TotalPnL < 0
    /\ dsim.Position = 0
    /\ dsim = dpre

----------------------------------------------------------------------------
(* Properties of the strategies *)

AllReturned(sigs, s) == \A i \in 1..Len(sigs) : sigs[i] = s

\* what a composite returns for unanimous and for split sub-strategies
Unanimous(sigs, out) ==
    /\ out = SignalBuy => AllReturned(sigs, SignalBuy)
    /\ out = SignalSell => AllReturned(sigs, SignalSell)
    /\ AllReturned(sigs, SignalBuy) => out = SignalBuy
    /\ (AllReturned(sigs, SignalSell) /\ ~AllReturned(sigs, SignalBuy)) => out = SignalSell
    /\ (~AllReturned(sigs, SignalBuy) /\ ~AllReturned(sigs, SignalSell)) => out = SignalNone

\* C18: CompositeStrategy.Next returns Buy only if every sub-strategy
\* returned Buy for the quote, Sell only if every one returned Sell, and
\* None whenever the sub-strategies are not unanimous on Buy or on Sell;
\* MultiTimeframeStrategy.Next returns what the fast composite returned if
\* the slow composite returned the same, and None otherwise.
C18_UnanimousSignals ==
    mcall.done
    => (/\ Unanimous(mcall.fastSigs, mcall.fast)
        /\ Unanimous(mcall.slowSigs, mcall.slow)
        /\ mcall.fast = mcall.slow => mcall.out = mcall.fast
        /\ mcall.fast # mcall.slow => mcall.out = SignalNone)

\* C18 witness: one of two fast sub-strategies dissents from Buy while the
\* slow composite is unanimous on Buy: no signal.
C18_Witness ==
    /\ mcall.done
    /\ mcall.fastSigs = <<SignalBuy, SignalNone>>
    /\ mcall.slowSigs = <<SignalBuy, SignalBuy>>
    /\ mcall.fast = SignalNone /\ mcall.slow = SignalBuy
    /\ mcall.out = SignalNone

\* the session of scenario A: windows 2 and 3, entry threshold 0, mid-prices
\* 10, 10, 10, 13, 13
ScenarioA ==
    /\ sma.ShortWindow = 2 /\ sma.LongWindow = 3
    /\ smacfg.EntryThreshold = 0
    /\ smain = <<10, 10, 10, 13, 13>>

\* C19 as stated: an SMA strategy with short window 2, long window 3 and
\* entry threshold 0 fed mid-prices 10, 10, 10, 13, 13 returns None, None,
\* None, Buy, None.
C19_ScenarioANoneAtFifth ==
    ScenarioA => smaout = <<SignalNone, SignalNone, SignalNone, SignalBuy, SignalNone>>

\* C19 amended: that strategy returns None, None, None, Buy, Buy: at the
\* fifth quote the short average 13 is still above the long average 12.
C19_ScenarioABuyAtFifth ==
    ScenarioA => smaout = <<SignalNone, SignalNone, SignalNone, SignalBuy, SignalBuy>>

\* C19 witness: the five quotes of scenario A have been fed.
C19_Witness == ScenarioA /\ Len(smaout) = 5 /\ smaout[5] = SignalBuy

\* the sum of the last w of the first k prices fed
WindowSum(k, w) == SumSeq(SubSeq(smain, k - w + 1, k))

\* C20: for every price sequence and every SMA strategy with shortWindow <
\* longWindow, call k of Next returns None while k < longWindow (the long
\* buffer is not full); from call longWindow on it returns Buy exactly when
\* the average of the last shortWindow prices is above the average of the
\* last longWindow prices plus the entry threshold, Sell exactly when it is
\* below that long average minus the exit threshold, and None otherwise
\* (thresholds not negative).
C20_SmaWarmUpThenSignals ==
    /\ Len(smaout) = Len(smain)
    /\ \A k \in 1..Len(smaout) :
          LET sw == sma.ShortWindow
              lw == sma.LongWindow
          IN  IF k < lw THEN smaout[k] = SignalNone
              ELSE LET above == WindowSum(k, sw) * lw >
                                    WindowSum(k, lw) * sw + smacfg.EntryThreshold * sw * lw
                       below == WindowSum(k, sw) * lw <
                                    WindowSum(k, lw) * sw - smacfg.ExitThreshold * sw * lw
                   IN  /\ smaout[k] = SignalBuy <=> above
                       /\ smaout[k] = SignalSell <=> below
                       /\ smaout[k] = SignalNone <=> (~above /\ ~below)

\* C20 witness: windows 2 and 3: nothing on the first two calls, Buy on the
\* third, the first with a full long buffer, and Sell later.
C20_Witness ==
    /\ sma.ShortWindow = 2 /\ sma.LongWindow = 3
    /\ Len(smaout) = 5
    /\ smain[1] = 10 /\ smain[2] = 10 /\ smain[3] = 13
    /\ smaout[1] = SignalNone /\ smaout[2] = SignalNone /\ smaout[3] = SignalBuy
    /\ smaout[5] = SignalSell

----------------------------------------------------------------------------
(* Properties of the RSI and threshold strategies *)

\* the k-th Next saw no price decrease over its trailing Period changes
NoDecrease(k) ==
    /\ k > rsi.Period
    /\ \A j \in (k - rsi.Period)..(k - 1) : rsi.prices[j + 1] >= rsi.prices[j]

\* C21: a Next whose trailing window of Period price changes holds no
\* decrease returns None, whatever the overbought and oversold levels; with
\* period 2 and mid-prices 100, 100, 100 the third Next returns None.
C21_RsiNoLossIsNone ==
    /\ \A k \in 1..Len(rsiout) : NoDecrease(k) => rsiout[k] = SignalNone
    /\ (rsi.Period = 2 /\ Len(rsiout) >= 3 /\ SubSeq(rsi.prices, 1, 3) = <<100, 100, 100>>)
           => rsiout[3] = SignalNone

\* a strategy with overbought level 70 has seen the price rise twice in a
\* row and answered None
C21_Witness ==
    /\ rsi.Period = 2
    /\ rsi.Overbought = 70
    /\ Len(rsiout) = 3
    /\ rsi.prices = <<95, 100, 105>>
    /\ rsiout[3] = SignalNone

\* every Next given the same quote and config returned the same signal
ThresholdPure ==
    \A i, j \in 1..Len(thrcalls) :
        (thrcalls[i].md = thrcalls[j].md /\ thrcalls[i].cfg = thrcalls[j].cfg)
            => thrcalls[i].sig = thrcalls[j].sig

\* C22 as stated: Next is a function of the quote and the config alone, it
\* returns Buy whenever ask > bid*(1 + entryThreshold) and Sell whenever
\* bid < ask*(1 - exitThreshold), zero thresholds included.
C22_ThresholdUnguarded ==
    /\ ThresholdPure
    /\ \A i \in 1..Len(thrcalls) :
          LET c == thrcalls[i]
          IN  /\ AboveEntry(c.md.Bid, c.md.Ask, c.cfg) => c.sig = SignalBuy
              /\ BelowExit(c.md.Bid, c.md.Ask, c.cfg) => c.sig = SignalSell

\* C22 amended: Next is a function of the quote and the config alone; it
\* returns Buy exactly when entryThreshold > 0 and ask > bid*(1 +
\* entryThreshold), otherwise Sell exactly when exitThreshold > 0 and
\* bid < ask*(1 - exitThreshold), otherwise None.
C22_ThresholdGuarded ==
    /\ ThresholdPure
    /\ \A i \in 1..Len(thrcalls) :
          LET c == thrcalls[i]
              entry == c.cfg.EntryThreshold.num > 0 /\ AboveEntry(c.md.Bid, c.md.Ask, c.cfg)
              exit == c.cfg.ExitThreshold.num > 0 /\ BelowExit(c.md.Bid, c.md.Ask, c.cfg)
          IN  /\ c.sig = SignalBuy <=> entry
              /\ c.sig = SignalSell <=> (~entry /\ exit)
              /\ c.sig = SignalNone <=> (~entry /\ ~exit)

\* the same wide quote was seen with a zero entry threshold, answered Sell
\* on the exit threshold, and with a positive one, answered Buy
C22_Witness ==
    /\ Len(thrcalls) = 2
    /\ thrcalls[1].md = thrcalls[2].md
    /\ thrcalls[1].md.Ask = 110
    /\ thrcalls[1].cfg = [EntryThreshold |-> RatInt(0), ExitThreshold |-> Rat(1, 20)]
    /\ thrcalls[1].sig = SignalSell
    /\ thrcalls[2].cfg = [EntryThreshold |-> Rat(1, 20), ExitThreshold |-> Rat(1, 20)]
    /\ thrcalls[2].sig = SignalBuy

\* the windows the SMA constructors of the last construction were given
WindowsGiven ==
    IF cargs.op = "sma" THEN {<<cargs.ShortWindow, cargs.LongWindow>>}
    ELSE IF cargs.op = "mtf"
         THEN {<<cargs.cfg.ShortWindow, cargs.cfg.LongWindow>>,
               <<WrapInt(cargs.cfg.ShortWindow * 2), WrapInt(cargs.cfg.LongWindow * 2)>>}
    ELSE {}

Least(a, b) == IF a < b THEN a ELSE b

\* C23: a construction given a non-positive window, or a short window not
\* below the long one, panics; every SMA strategy that was constructed, the
\* doubled-period one of the slow timeframe included, has 0 < ShortWindow <
\* LongWindow, and each Next on it returns a signal computed over buffers
\* of at most ShortWindow and LongWindow prices, None until the long one is
\* full.
C23_InvalidPeriodsRejectedAtConstruction ==
    /\ (\E w \in WindowsGiven : w[1] <= 0 \/ w[2] <= 0 \/ w[1] >= w[2]) => cpanic
    /\ cpanic => cbuilt = <<>>
    /\ \A i \in 1..Len(cbuilt) :
          LET s == cbuilt[i]
              k == Len(csigs[i])
          IN  /\ 0 < s.ShortWindow /\ s.ShortWindow < s.LongWindow
              /\ Len(s.shortBuf) = Least(k, s.ShortWindow)
              /\ Len(s.longBuf) = Least(k, s.LongWindow)
              /\ \A j \in 1..k :
                    /\ csigs[i][j] \in Signals
                    /\ j < s.LongWindow => csigs[i][j] = SignalNone

\* the slow strategy of a multi-timeframe construction with windows 1 and 3
\* has windows 2 and 6 and signals on its sixth quote
C23_Witness ==
    /\ cargs.op = "mtf"
    /\ cargs.cfg.ShortWindow = 1 /\ cargs.cfg.LongWindow = 3
    /\ Len(cbuilt) = 2
    /\ cbuilt[2].ShortWindow = 2 /\ cbuilt[2].LongWindow = 6
    /\ Len(csigs[2]) = 6
    /\ csigs[2][6] # SignalNone

----------------------------------------------------------------------------
(* Properties of the backtest *)

\* zero cooldown, limits that never bind
ReplayConfig ==
    [Pair |-> "", StakeSize |-> BacktestConfig.StakeSize,
     PositionLimit |-> BacktestConfig.StakeSize, Cooldown |-> 0, MaxDrawdown |-> 1000]

\* a new SimulatedExecutor after the signals and quotes of the first k bars
RECURSIVE Replay(_)
Replay(k) ==
    IF k = 0 THEN NewSimulatedExecutor
    ELSE LET bar == bthist[k]
             md == [Bid |-> bar.price, Ask |-> bar.price, Timestamp |-> bar.time]
         IN  SimExecute(Replay(k - 1), bar.sig, md, ReplayConfig).e

BarBefore(k) ==
    IF k = 1 THEN [inPos |-> FALSE, entry |-> 0, pnl |-> RatInt(0)] ELSE bthist[k - 1]

\* C24: after every bar the replay is in a position exactly when a new
\* SimulatedExecutor fed the same signals and quotes is, and at the same
\* entry price; it enters exactly on a Buy while flat, exits exactly on a
\* Sell while positioned, and an exit adds (exit - entry)*stake -
\* feeRate*(entry + exit)*stake to the total PnL, which no other bar changes.
C24_BacktestRefinesSimulatedExecutor ==
    \A k \in 1..Len(bthist) :
        LET bar == bthist[k]
            was == BarBefore(k)
            e == Replay(k)
            stake == BacktestConfig.StakeSize
        IN  /\ bar.inPos <=> e.Position # 0
            /\ bar.inPos => (e.EntryPrice = bar.entry /\ e.Position = stake)
            /\ (~was.inPos /\ bar.inPos) <=> (bar.sig = SignalBuy /\ ~was.inPos)
            /\ (was.inPos /\ ~bar.inPos) <=> (bar.sig = SignalSell /\ was.inPos)
            /\ IF was.inPos /\ ~bar.inPos
               THEN RatSub(bar.pnl, was.pnl) =
                       RatSub(RatInt((bar.price - was.entry) * stake),
                              RatMul(bt.req.FeeRate, RatInt((was.entry + bar.price) * stake)))
               ELSE bar.pnl = was.pnl

\* a replay with a fee entered at 105 and left at 95
C24_Witness ==
    /\ bt.req.FeeRate = Rat(1, 100)
    /\ Len(bthist) >= 2
    /\ \E k \in 2..Len(bthist) :
          /\ bthist[k - 1].inPos /\ bthist[k - 1].entry = 105
          /\ ~bthist[k].inPos /\ bthist[k].price = 95
          /\ bthist[k].pnl = RatSub(bthist[k - 1].pnl, RatInt(12))
    /\ btresp.trades >= 1

----------------------------------------------------------------------------
(* Properties of the threshold grid search *)

\* C25: the result reported for a pair of which at least one combination
\* was evaluated carries the thresholds, total PnL and win rate of an evaluated
\* combination whose total PnL no evaluated combination exceeds and no
\* earlier one reaches.
C25_GridReportsFirstMaximum ==
    \A k \in 1..Len(results) :
        LET r == results[k]
            evals == gevals[r.Pair]
        IN  evals # <<>> =>
               \E i \in 1..Len(evals) :
                   /\ r.EntryThreshold = evals[i].e
                   /\ r.ExitThreshold = evals[i].x
                   /\ r.TotalPnl = evals[i].pnlTotal
                   /\ r.WinRate = evals[i].wr
                   /\ \A j \in 1..Len(evals) : RatLeq(evals[j].pnlTotal, evals[i].pnlTotal)
                   /\ \A j \in 1..(i - 1) : evals[j].pnlTotal # evals[i].pnlTotal

\* a pair was reported with a combination that is not the first evaluated,
\* and a later combination has the same total PnL
C25_Witness ==
    \E k \in 1..Len(results) :
        LET r == results[k]
            evals == gevals[r.Pair]
        IN  \E i \in 2..Len(evals), j \in 3..Len(evals) :
               /\ i < j
               /\ r.EntryThreshold = evals[i].e /\ r.ExitThreshold = evals[i].x
               /\ evals[j].pnlTotal = r.TotalPnl
               /\ evals[1].pnlTotal # r.TotalPnl

\* the grid values the decimals g of a request denote: start, start + step,
\* ..., as far as the end
GridValues(g) ==
    [k \in 1..(((g[2] - g[1]) \div g[3]) + 1) |-> FloatRound(Rat(g[1] + (k - 1) * g[3], 100))]

\* the Cartesian product of a sequence of grid values with itself, ascending
\* entry first, then ascending exit
GridProduct(v) ==
    [k \in 1..(Len(v) * Len(v)) |->
        <<v[((k - 1) \div Len(v)) + 1], v[((k - 1) % Len(v)) + 1]>>]

\* C26: for a positive step and a start not above the end, the combinations
\* evaluated for a reported pair are the Cartesian product of the grid values
\* start, start + step, ..., up to and including the end, in order and each
\* once; for 0.01, 0.05 and 0.04 they are the four combinations of 0.01 and
\* 0.05.
C26_GridIsCartesianProduct ==
    \A k \in 1..Len(results) :
        LET g == grid.req.Decimals
            evals == gevals[results[k].Pair]
        IN  /\ (g[3] > 0 /\ g[1] <= g[2]) =>
                  [i \in 1..Len(evals) |-> <<evals[i].e, evals[i].x>>] =
                      GridProduct(GridValues(g))
            /\ g = <<1, 5, 4>> =>
                  [i \in 1..Len(evals) |-> <<evals[i].e, evals[i].x>>] =
                      <<<<FloatRound(Rat(1, 100)), FloatRound(Rat(1, 100))>>,
                        <<FloatRound(Rat(1, 100)), FloatRound(Rat(5, 100))>>,
                        <<FloatRound(Rat(5, 100)), FloatRound(Rat(1, 100))>>,
                        <<FloatRound(Rat(5, 100)), FloatRound(Rat(5, 100))>>>>

----------------------------------------------------------------------------
(* Properties of the scan endpoints *)

\* C27: a start request that binds is answered 200 "auto-scan started" if
\* no scan is running and 400 otherwise, a stop request is answered 200
\* "auto-scan stopped" if a scan is running and 400 otherwise; after an
\* accepted start a scan is running, after an accepted stop none is.
C27_AutoScanStartStopAlternate ==
    /\ \A k \in 1..Len(areqs) :
          LET r == areqs[k]
          IN  /\ (r.op = "start" /\ r.binds) =>
                    IF r.running THEN r.status = 400
                    ELSE r.status = 200 /\ r.msg = "auto-scan started"
              /\ r.op = "stop" =>
                    IF r.running THEN r.status = 200 /\ r.msg = "auto-scan stopped"
                    ELSE r.status = 400
    /\ areqs # <<>> =>
          LET last == areqs[Len(areqs)]
          IN  /\ (last.op = "start" /\ last.status = 200) => Running
              /\ (last.op = "stop" /\ last.status = 200) => ~Running

\* C28: every result of a scan with entry threshold e > 0 whose ask exceeds
\* bid*(1 + e) carries the signal "buy", on the first scan of the pair as on
\* later ones.
C28_ScanReportsBuyOnHit ==
    \A k \in 1..Len(scanresp.results) :
        LET r == scanresp.results[k]
            e == scanresp.req.EntryThreshold
        IN  (e.num > 0 /\ FLess(RatMul(RatInt(r.Bid), RatAdd(RatInt(1), e)), RatInt(r.Ask)))
                => r.Signal = "buy"

\* the entry orders the broker has accepted
LiveEntries == {k \in 1..Len(liveOrders) : liveOrders[k].ok /\ liveOrders[k].req.Type = "BID"}

\* C29: calls of the shared executor are serialized: while only Buy calls
\* run on the executor, flat at first, the broker accepts at most one entry
\* order and the position is set once.
C29_ConcurrentBuysPostOneEntry ==
    liveHist.sells = 0 => (Cardinality(LiveEntries) <= 1 /\ liveHist.entries <= 1)

\* C30: each pair has its own position ledger: a Buy for a pair is not
\* ignored because of a position opened on another pair, and a Sell for a
\* pair does not close a position opened on another pair.
C30_PairsHaveOwnLedgers ==
    \A g \in LiveGoroutines :
        LET r == liveRet[g]
        IN  /\ (r.sig = SignalBuy /\ r.outcome = "ignored") => r.holder \in {"", r.pair}
            /\ (r.sig = SignalSell /\ r.outcome = "closed") => r.holder \in {"", r.pair}

----------------------------------------------------------------------------
(* Properties of the pipeline as the server drives it *)

\* the auto-scan whose scan is under way has been stopped
ScanStopped == \E g \in 1..Len(scans) : scans[g].pc = "scan" /\ scans[g].done

\* C31: the wait between two slices of an execution started by the scan loop
\* observes the cancellation of that loop: once the auto-scan is stopped, an
\* execution waiting between slices runs no further slice, and when it
\* returns it returns the cancellation error.
C31_StopAbortsWaitingExecution ==
    [][(ScanStopped /\ spc = "wait")
          => (spc' # "call" /\ (spc' = "done" => sret' \in CtxErrors))]_vars

\* the order books GetOrderBook answered during the execution
BooksRead ==
    {events[k].resp : k \in {j \in 1..Len(events) : events[j].kind = "getOrderBook"}}

\* the first d entries of a side
TopLevels(items, d) == IF Len(items) <= d THEN items ELSE SubSeq(items, 1, d)

\* the side of the book a signal reads
MatchingSide(book, sig) == IF sig = SignalSell THEN book.Bids ELSE book.Asks

\* order books with the levels of another book, the volumes changed
BookVariants(book) ==
    {b \in [err : {FALSE}, Asks : {<<>>, <<1, 2>>, <<1, 5>>, <<3, 2>>},
            Bids : {<<1>>, <<4>>, <<2, 1, 1>>, <<2, 1, 4>>, <<2, 3, 1>>}] :
        Len(b.Asks) = Len(book.Asks) /\ Len(b.Bids) = Len(book.Bids)}

\* C35: in orderbook mode the slice weights depend only on the top
\* cfg.VWAPOrderbookDepthLevels levels of the side matching the signal: an
\* order book that differs only in the volumes of deeper levels, or of the
\* other side, gives the same weights.
C35_WeightsReadTopLevelsOnly ==
    \A book \in BooksRead :
        (~book.err /\ sargs.sig # SignalNone) =>
            \A other \in BookVariants(book) :
                (TopLevels(MatchingSide(other, sargs.sig), sargs.cfg.VWAPOrderbookDepthLevels)
                   = TopLevels(MatchingSide(book, sargs.sig),
                               sargs.cfg.VWAPOrderbookDepthLevels))
                => ComputeOrderbookWeights(other, sargs.sig, slicer.Slices) = sloop.weights

\* the error a collaborator returned in an event of the log: the inner
\* executor's error, the store's error, or Nil
CollaboratorError(ev) ==
    IF ev.kind = "inner" THEN ev.err
    ELSE IF ev.kind \in {"saveTrade", "saveSlice"} /\ ~ev.ok THEN ErrStore
    ELSE Nil

\* C32 (as claimed): when the inner executor or the store fails with error
\* E during a slicing Execute, nothing more is run and Execute returns
\* exactly E.
C32_CollaboratorErrorUnchanged ==
    \A k \in 1..Len(events) :
        CollaboratorError(events[k]) # Nil
            => (k = Len(events) /\ spc = "done" /\ sret = CollaboratorError(events[k]))

\* C32 (amended): when the inner executor or the store fails with error E
\* during a slicing Execute, nothing more is run; Execute returns exactly E
\* for an error of the inner executor, and E wrapped behind the prefix
\* "save trade" or "save slice" for an error of the store.
C32_StoreErrorWrapped ==
    \A k \in 1..Len(events) :
        CollaboratorError(events[k]) # Nil
            => /\ k = Len(events)
               /\ spc = "done"
               /\ events[k].kind = "inner" => sret = events[k].err
               /\ events[k].kind = "saveTrade" => sret = <<"save trade", ErrStore>>
               /\ events[k].kind = "saveSlice" => sret = <<"save slice", ErrStore>>

\* C32 witness: the store failed on the first slice of several, after the
\* inner executor had run it, and Execute returned the wrapped error.
C32_Witness ==
    /\ slicer.Slices >= 2
    /\ Len(events) >= 2
    /\ events[Len(events)].kind = "saveSlice"
    /\ ~events[Len(events)].ok
    /\ events[Len(events)].index = 0
    /\ Len(InnerEvents) = 1
    /\ spc = "done"
    /\ sret = <<"save slice", ErrStore>>

----------------------------------------------------------------------------
(* Properties of a paper-trading session, over the last call, the state
   before it and the ledger of the session *)

\* C33: once MaxDrawdownExceeded is true on a SimulatedExecutor, no later
\* Execute(Buy) opens a new position.
C33_DrawdownHaltsBuys ==
    (SimCalled("Execute") /\ call.sig = SignalBuy /\ pre.sim.MaxDrawdownExceeded)
        => ~(pre.sim.Position = 0 /\ sim.Position # 0)

\* The last call was an Execute with a Buy or a Sell the ledger's position
\* admits: a Buy on a flat executor within the position limit, or a Sell on an
\* open position.
ValidTradeCall ==
    /\ SimCalled("Execute")
    /\ \/ /\ call.sig = SignalBuy
          /\ pre.sim.Position = 0
          /\ call.cfg.StakeSize <= call.cfg.PositionLimit
       \/ /\ call.sig = SignalSell
          /\ pre.sim.Position # 0

\* A trade was executed before the last call, and the last call arrived at
\* least cfg.Cooldown after it.
CooldownElapsed ==
    /\ ledger.prevTrade # 0
    /\ call.md.Timestamp - ledger.prevTrade >= call.cfg.Cooldown

\* The last call took effect: the Buy opened a position, the Sell closed it or
\* reported the drawdown.
TradeCallActed ==
    \/ call.sig = SignalBuy /\ sim.Position # 0
    \/ call.sig = SignalSell /\ (sim.Position = 0 \/ call.err = ErrDrawdown)

\* C34: a valid Buy or Sell that arrives at least cfg.Cooldown after the last
\* executed trade is not suppressed by the cooldown, whatever calls without a
\* trade came in between.
C34_CooldownCountsFromLastTrade ==
    (ValidTradeCall /\ CooldownElapsed) => TradeCallActed

\* C36: the profit of an opened position is added to TotalPnL by at most one
\* Sell call.
C36_ProfitBookedOnce == ledger.booked <= 1

----------------------------------------------------------------------------
(* Properties of a sliced entry on a SimulatedExecutor *)

\* The chain slices its orders into more than one slice, and any sizer below
\* the slicing executor leaves the slice sizes as they are.
SlicesUnsized ==
    /\ \E d \in 1..Len(dchain) :
           dchain[d].kind \in {"twap", "vwap"} /\ dchain[d].Slices > 1
    /\ \A d \in 1..Len(dchain) :
           dchain[d].kind = "sizing" => dchain[d].Sizer = NewFixedSizer

\* C37: after a TWAP or VWAP Execute(Buy) with N > 1 slices returned success
\* on a flat SimulatedExecutor outside its cooldown, the executor's position
\* is the full cfg.StakeSize, the sum of the N slice sizes.
C37_SlicedBuyEntersFullStake ==
    (/\ SlicesUnsized
     /\ dcall.op = "Execute" /\ dcall.sig = SignalBuy /\ dcall.err = Nil
     /\ dpre.Position = 0
     /\ dpre.LastTradeTime = 0)
    => dsim.Position = dcall.cfg.StakeSize

----------------------------------------------------------------------------
(* Termination of the threshold grid search *)

\* an iteration of the inner loop is due: e <= req.GridEnd and x <= req.GridEnd
GridIterationDue ==
    /\ grid.pc = "grid"
    /\ RatLeq(grid.e, grid.req.GridEnd)
    /\ RatLeq(grid.x, grid.req.GridEnd)

\* C39: both grid loops finish for every grid_start, grid_end and grid_step.
\* A loop whose iteration leaves its variable where it was runs the same
\* iteration again without end, so in every state in which an iteration of
\* the inner loop is due, x += req.GridStep moves x.
C39_GridLoopAdvances ==
    GridIterationDue => FloatSum(grid.x, grid.req.GridStep) # grid.x

----------------------------------------------------------------------------
(* Profits of the threshold grid search *)

\* a finite or infinite amount is at most 0
NotPositive(v) == RatLeq(v, RatInt(0))

\* C40: with positive closes, grid_start >= 0 and fee_rate >= 0 no trade of
\* the simulation realizes a profit above 0: every evaluated combination has
\* a total PnL of at most 0 and a win rate of 0, and so has every result
\* reported.
C40_GridNeverProfits ==
    (/\ grid.pc # "idle"
     /\ grid.req.GridStart.num >= 0
     /\ grid.req.FeeRate.num >= 0
     /\ \A k \in 1..Len(grid.closes) : grid.closes[k] > 0)
    => /\ \A p \in 1..Len(gevals) : \A i \in 1..Len(gevals[p]) :
              NotPositive(gevals[p][i].pnlTotal) /\ gevals[p][i].wr = RatInt(0)
       /\ \A k \in 1..Len(results) :
              NotPositive(results[k].TotalPnl) /\ results[k].WinRate = RatInt(0)

\* C40 witness: a pair was reported whose best combination realized trades at
\* a loss.
C40_Witness ==
    \E k \in 1..Len(results) :
        /\ results[k].TotalPnl.den # 0
        /\ results[k].TotalPnl.num < 0
        /\ results[k].WinRate = RatInt(0)
        /\ Len(gevals[results[k].Pair]) > 1

====
